---------------------------- MODULE Spec2Model ----------------------------
(***************************************************************************)
(* A model of the protocol engine of the huidu package (Huidu SDK 2.0      *)
(* binary TCP client): stream framing (Device.readPacket), fragmentation   *)
(* (buildSdkCmdPackets), reassembly (Device.readSdkResponse) and the       *)
(* locking discipline of Device (mu, writeMu).                             *)
(*                                                                         *)
(* Byte strings are sequences of numbers 0..255; multi-byte integers are   *)
(* encoded little-endian exactly as encoding/binary does.                  *)
(***************************************************************************)
EXTENDS Integers, Sequences, FiniteSets, TLC

(***************************************************************************)
(* Protocol constants.                                                     *)
(***************************************************************************)
MaxContentLength == 8000
tcpHeaderLength == 4
sdkCmdHeaderLength == 12
CmdHeartbeatAsk == 95
CmdHeartbeatAnswer == 96
CmdErrorAnswer == 8192
CmdServiceAsk == 8193
CmdServiceAnswer == 8194
CmdSdkCmdAsk == 8195
CmdSdkCmdAnswer == 8196
CmdFileEndAnswer == 32774
transportVersion == 16777221
sdkVersion == 16777216

(***************************************************************************)
(* Bounds of the model.                                                    *)
(***************************************************************************)
MaxFrames == 2
MaxPayload == 2
MaxAsmFrames == 4
MaxTotal == 3
MaxChunks == 3
MaxOps == 2
MaxTicks == 2

(***************************************************************************)
(* Byte-string helpers.                                                    *)
(***************************************************************************)
Min(a, b) == IF a < b THEN a ELSE b
Take(s, k) == SubSeq(s, 1, k)
Drop(s, k) == SubSeq(s, k + 1, Len(s))
Fill(b, n) == [i \in 1..n |-> b]

RECURSIVE Concat(_)
Concat(ss) == IF ss = << >> THEN << >> ELSE Head(ss) \o Concat(Tail(ss))

\* binary.LittleEndian.PutUint16 applied to uint16(n)
PutUint16(n) == << (n % 65536) % 256, (n % 65536) \div 256 >>
\* binary.LittleEndian.PutUint32 applied to uint32(n)
PutUint32(n) ==
    << n % 256, (n \div 256) % 256, (n \div 65536) % 256, (n \div 16777216) % 256 >>
\* binary.LittleEndian.Uint16(b[i:i+2]), i being the 0-based Go index
Uint16(b, i) == b[i + 1] + 256 * b[i + 2]
\* binary.LittleEndian.Uint32(b[i:i+4])
Uint32(b, i) == b[i + 1] + 256 * b[i + 2] + 65536 * b[i + 3] + 16777216 * b[i + 4]

VARIABLES
    \* ---- stream framing: Device.readPacket over one TCP stream
    sent,       \* the well-formed frames the peer writes back-to-back
    tail,       \* the raw bytes the peer writes after them
    stream,     \* bytes the peer has written that are still in flight
    rcvBuf,     \* bytes delivered to the socket and not yet read
    rpPc,       \* position of the current readPacket call: "len", "body", "done"
    rpBuf,      \* bytes the current io.ReadFull has gathered so far
    lenBuf,     \* readPacket's lenBuf once filled
    returned,   \* the packets returned by the successive readPacket calls
    rpErr       \* the error of the readPacket call that failed, "" if none

frameVars == << sent, tail, stream, rcvBuf, rpPc, rpBuf, lenBuf, returned, rpErr >>

VARIABLES
    \* ---- one command/response cycle: Device.sendSdkCmdAndReceive
    xmlData,    \* the request XML
    built,      \* what buildSdkCmdPackets(xmlData) returned
    nWritten,   \* how many of these packets sendSdkCmd has written
    wire,       \* packets written and not yet taken by the peer
    inFrames,   \* frames the peer has sent and readPacket has not yet returned
    nSent,      \* how many frames the peer has sent
    rs,         \* readSdkResponse: xmlBuf, totalExpected and the outcome
    covered,    \* the positions of xmlBuf a fragment has been copied to
    noHb,       \* the same call fed the same frames less the heartbeat answers
    readLog,    \* the command types of the packets this call got from readPacket
    cyPc        \* "build", "send", "reading", "done"; "idle" outside a cycle

cycleVars == << xmlData, built, nWritten, wire, inFrames, nSent, rs, covered,
                noHb, readLog, cyPc >>

VARIABLES
    \* ---- the Device and the goroutines that use it
    conn,           \* d.conn: the socket, 0 for nil
    connected,      \* d.connected
    sdkGUID,        \* d.sdkGUID, 0 for ""
    info,           \* d.info
    stopHeartbeat,  \* d.stopHeartbeat: the channel, 0 for nil
    mu,             \* the goroutine holding d.mu, 0 when free
    writeMu,        \* the goroutine holding d.writeMu, 0 when free
    nChans,         \* the channels made so far; the k-th belongs to the k-th heartbeatLoop
    closedChans,    \* the channels closed so far
    socks,          \* the sockets dialled so far
    pc,             \* where each goroutine stands
    op,             \* the public method a calling goroutine is in: "connect", "command"
    wq,             \* the packets a goroutine's send has still to write
    iosock,         \* the socket its current conn.Write or readPacket works on
    cont,           \* where it goes on after its send, and after an I/O error
    rsLoc,          \* the locals of its readSdkResponse
    hbch,           \* the channel a heartbeatLoop's select waits on
    method,         \* the method of the command a caller issued last
    lastResp,            \* the response that command returned
    result,         \* how the last operation of a goroutine ended
    opsLeft,        \* public method calls still to come
    ticks           \* ticker ticks so far

devVars == << conn, connected, sdkGUID, info, stopHeartbeat, mu, writeMu, nChans,
              closedChans, socks, pc, op, wq, iosock, cont, rsLoc, hbch, method,
              lastResp, result, opsLeft, ticks >>

VARIABLES
    \* ---- one upload: Device.UploadFileData or Device.UploadFileAs
    upMode,     \* "data" for UploadFileData, "file" for UploadFileAs
    fileName,   \* the file name
    fileData,   \* the content: the fileData argument, or the content of the file
    live,       \* the connection: "ready", "closed" (Close was called), "broken"
    upPc,       \* "call", "sendStart", "readStart", "content",
                \* "readEnd", "done"; "idle" outside an upload
    existBytes, \* what parseFileStartResponse returned as existBytes
    upOffset,   \* UploadFileData's offset; the read position of UploadFileAs's file
    shortReads, \* how often file.Read may still return less than the buffer holds
    progress,   \* the SentBytes of the onProgress calls so far
    upOut,      \* the frames the upload has written, in order
    upIn,       \* the frames the peer has sent and readPacket has not yet returned
    upRead,     \* the frames readPacket has returned to the upload
    upErr       \* what the upload returned: "nil" or the error; "" while it runs

upVars == << upMode, fileName, fileData, live, upPc, existBytes, upOffset, shortReads,
             progress, upOut, upIn, upRead, upErr >>

vars == << frameVars, cycleVars, devVars, upVars >>

\* no upload under way
UpIdle ==
    /\ upMode = "data" /\ fileName = << >> /\ fileData = << >> /\ live = "closed"
    /\ upPc = "idle" /\ existBytes = 0 /\ upOffset = 0 /\ shortReads = 0
    /\ progress = << >> /\ upOut = << >> /\ upIn = << >> /\ upRead = << >>
    /\ upErr = ""

\* no readPacket call under way
FrameIdle ==
    /\ sent = << >> /\ tail = << >> /\ stream = << >> /\ rcvBuf = << >>
    /\ rpPc = "idle" /\ rpBuf = << >> /\ lenBuf = << >>
    /\ returned = << >> /\ rpErr = ""

\* a well-formed frame: [2B length LE][2B command LE][payload]
MkFrame(cmd, payload) ==
    PutUint16(tcpHeaderLength + Len(payload)) \o PutUint16(cmd) \o payload

(***************************************************************************)
(* Fragmentation and reassembly.                                           *)
(***************************************************************************)
\* the size of the chunk buildSdkCmdPackets cuts at offset
chunkSize(totalLen, offset) ==
    IF totalLen - offset > MaxContentLength THEN MaxContentLength
    ELSE totalLen - offset

\* one packet of buildSdkCmdPackets:
\* [2B length][2B cmd][4B totalXmlLen][4B xmlOffset][chunk]
sdkCmdPacketMutant(xml, offset, size) ==
    PutUint16(sdkCmdHeaderLength + size) \o PutUint16(CmdSdkCmdAsk)
        \o PutUint32(Len(xml)) \o PutUint32(offset + size)
        \o SubSeq(xml, offset + 1, offset + size)
sdkCmdPacket(xml, offset, size) ==
    PutUint16(sdkCmdHeaderLength + size) \o PutUint16(CmdSdkCmdAsk)
        \o PutUint32(Len(xml)) \o PutUint32(offset)
        \o SubSeq(xml, offset + 1, offset + size)

\* the loop of buildSdkCmdPackets from offset on
RECURSIVE packetsFrom(_, _)
packetsFrom(xml, offset) ==
    IF offset < Len(xml)
    THEN LET size == chunkSize(Len(xml), offset)
         IN  << sdkCmdPacket(xml, offset, size) >> \o packetsFrom(xml, offset + size)
    ELSE << >>

buildSdkCmdPackets(xml) == IF Len(xml) = 0 THEN << >> ELSE packetsFrom(xml, 0)

parseSdkCmdHeader(data) ==
    IF Len(data) < sdkCmdHeaderLength
    THEN [ok |-> FALSE, totalLen |-> 0, xmlOffset |-> 0]
    ELSE [ok |-> TRUE, totalLen |-> Uint32(data, 4), xmlOffset |-> Uint32(data, 8)]

parseErrorCode(data) ==
    IF Len(data) < 6 THEN [ok |-> FALSE, code |-> 0]
    ELSE [ok |-> TRUE, code |-> Uint16(data, 4)]

\* strings.TrimSpace on the single-byte white space \t \n \v \f \r and space;
\* the payloads of this model hold no multi-byte white space (U+0085, U+00A0, ...)
IsSpace(b) == b \in {9, 10, 11, 12, 13, 32}
RECURSIVE TrimLeft(_)
TrimLeft(s) == IF s # << >> /\ IsSpace(Head(s)) THEN TrimLeft(Tail(s)) ELSE s
RECURSIVE TrimRight(_)
TrimRight(s) ==
    IF s # << >> /\ IsSpace(s[Len(s)]) THEN TrimRight(Take(s, Len(s) - 1)) ELSE s
TrimSpace(s) == TrimRight(TrimLeft(s))

cleanXML(data) ==
    IF Len(data) >= 3 /\ data[1] = 239 /\ data[2] = 187 /\ data[3] = 191
    THEN TrimSpace(Drop(data, 3))
    ELSE TrimSpace(data)

\* Go's copy(dst[offset:], src), for offset <= len(dst)
GoCopyMutant(dst, offset, src) ==
    LET n == Min(Len(dst), Len(src))
    IN  Take(src, n) \o Drop(dst, n)
GoCopy(dst, offset, src) ==
    LET n == Min(Len(dst) - offset, Len(src))
    IN  Take(dst, offset) \o Take(src, n) \o Drop(dst, offset + n)

\* the outcome of readSdkResponse; kind "none" while the loop goes on
Outcome(kind, err, code, xmlStr) ==
    [kind |-> kind, err |-> err, code |-> code, xmlStr |-> xmlStr]
Going == Outcome("none", "", 0, << >>)
Failed(err, code) == Outcome("error", err, code, << >>)

\* readSdkResponse's locals at loop entry: var xmlBuf []byte; var totalExpected uint32
RsInit == [xmlBufNil |-> TRUE, xmlBuf |-> << >>, totalExpected |-> 0, out |-> Going]

\* case CmdSdkCmdAnswer of readSdkResponse's switch
onSdkCmdAnswer(st, data) ==
    LET h == parseSdkCmdHeader(data) IN
    IF ~h.ok THEN [st EXCEPT !.out = Failed("sdkHeader", 0)]
    ELSE
      LET buf0 == IF st.xmlBufNil THEN Fill(0, h.totalLen) ELSE st.xmlBuf
          total == IF st.xmlBufNil THEN h.totalLen ELSE st.totalExpected
          xmlChunk == Drop(data, sdkCmdHeaderLength)
          alloc == [st EXCEPT !.xmlBufNil = FALSE, !.xmlBuf = buf0,
                              !.totalExpected = total]
      IN  IF h.xmlOffset > Len(buf0)
          THEN \* xmlBuf[offset:] is out of range: the runtime panics
               [alloc EXCEPT !.out = Failed("panic", 0)]
          ELSE LET buf1 == GoCopy(buf0, h.xmlOffset, xmlChunk) IN
               IF h.xmlOffset + Len(xmlChunk) >= total
               THEN [alloc EXCEPT !.xmlBuf = buf1,
                                  !.out = Outcome("response", "", 0, cleanXML(buf1))]
               ELSE [alloc EXCEPT !.xmlBuf = buf1]

\* case CmdErrorAnswer
onErrorAnswerMutant(st, data) == st
onErrorAnswer(st, data) ==
    LET e == parseErrorCode(data) IN
    IF e.ok THEN [st EXCEPT !.out = Failed("device", e.code)]
    ELSE [st EXCEPT !.out = Failed("deviceUnknownFormat", 0)]

\* case CmdHeartbeatAnswer: continue
onHeartbeatAnswerMutant(st, data) == [st EXCEPT !.out = Failed("unexpected", 0)]
onHeartbeatAnswer(st, data) == st

\* one iteration of readSdkResponse's loop on the packet readPacket returned
sdkStep(st, data) ==
    LET cmdType == Uint16(data, 2) IN
    CASE cmdType = CmdSdkCmdAnswer -> onSdkCmdAnswer(st, data)
      [] cmdType = CmdErrorAnswer -> onErrorAnswer(st, data)
      [] cmdType = CmdHeartbeatAnswer -> onHeartbeatAnswer(st, data)
      [] OTHER -> [st EXCEPT !.out = Failed("unexpected", 0)]

\* the buffer positions the copy of one fragment writes
CopiedTo(st, data) ==
    LET h == parseSdkCmdHeader(data)
        len == IF st.xmlBufNil THEN h.totalLen ELSE Len(st.xmlBuf)
    IN  IF Uint16(data, 2) = CmdSdkCmdAnswer /\ h.ok /\ h.xmlOffset <= len
        THEN { i \in 0..(len - 1) :
                 h.xmlOffset <= i /\ i < h.xmlOffset + Len(data) - sdkCmdHeaderLength }
        ELSE { }

CycleIdle ==
    /\ xmlData = << >> /\ built = << >> /\ nWritten = 0 /\ wire = << >>
    /\ inFrames = << >> /\ nSent = 0 /\ rs = RsInit /\ covered = { }
    /\ noHb = RsInit /\ readLog = << >> /\ cyPc = "idle"

(***************************************************************************)
(* The Device: its goroutines, its packets and XML documents, its peer.    *)
(* An XML document is modelled by the values it carries, one byte each:    *)
(* a request is << guid, method >> \o inner, a response is                 *)
(* << guid, method, result >> \o inner; the empty string is 0.             *)
(***************************************************************************)
Callers == 1..2
HbOf(k) == 2 + k
HbIds == { HbOf(k) : k \in 1..MaxOps }
Procs == Callers \cup HbIds

MethodGetIFVersion == 86
MethodGetDeviceInfo == 68
MethodGetTimeInfo == 84
Methods == {MethodGetDeviceInfo, MethodGetTimeInfo}
\* "##GUID"
GuidPlaceholder == 35
\* uuid.New().String()
GuidGenerated == 117
\* "kSuccess"
ResultSuccess == 83

buildVersionPacket ==
    PutUint16(8) \o PutUint16(CmdServiceAsk) \o PutUint32(transportVersion)
buildHeartbeat == PutUint16(4) \o PutUint16(CmdHeartbeatAsk)
parseVersionResponseMutant(data) == [ok |-> TRUE, version |-> 0]
parseVersionResponse(data) ==
    IF Len(data) < 8 THEN [ok |-> FALSE, version |-> 0]
    ELSE [ok |-> TRUE, version |-> Uint32(data, 4)]

buildSdkXMLMutant(guid, m, innerXML) == << 0, m >> \o innerXML
buildSdkXML(guid, m, innerXML) == << guid, m >> \o innerXML
\* the inner <version value=.../> carries sdkVersion
buildVersionXML == buildSdkXML(GuidPlaceholder, MethodGetIFVersion, PutUint32(sdkVersion))

NoResp == [ok |-> FALSE, GUID |-> 0, Method |-> 0, Result |-> 0, InnerXML |-> << >>]
\* parseSdkResponse: the guid of <sdk>, method and result of <out>, its inner
\* XML; an error when neither a GUID nor a method is found
parseSdkResponse(rawXML) ==
    LET at(i) == IF Len(rawXML) >= i THEN rawXML[i] ELSE 0 IN
    [ok |-> ~(at(1) = 0 /\ at(2) = 0), GUID |-> at(1), Method |-> at(2),
     Result |-> at(3), InnerXML |-> Drop(rawXML, 3)]
IsSuccess(resp) == resp.Result = ResultSuccess

\* d.info: nil, or the descriptor parseDeviceInfoXML built
NilInfo == [nil |-> TRUE, model |-> 0]
parseDeviceInfoXML(innerXML) ==
    [nil |-> FALSE, model |-> IF innerXML = << >> THEN 0 ELSE innerXML[1]]

ensureConnectedMutant == TRUE
ensureConnected == connected /\ conn # 0
\* the public getters
IsConnected == connected
GUID == sdkGUID
CachedDeviceInfo == info

\* handshakeSdkVersion: d.sdkGUID = resp.GUID, replaced by a new UUID if it is
\* empty or the placeholder
sessionGUIDMutant(respGUID) == respGUID
sessionGUID(respGUID) ==
    IF respGUID = 0 \/ respGUID = GuidPlaceholder THEN GuidGenerated ELSE respGUID

\* a socket: what was written to it byte by byte (wire) and packet by packet
\* (wlog), whether it was closed in the middle of a write (cut), and the
\* peer's packets waiting to be read (inbox).  For the record: the GUID of
\* the peer's GetIFVersion response (guid, -1 before it is read), the
\* heartbeat goroutine Connect started for this connection (hb, 0 before it
\* is started) and the method that closed the socket (closedBy)
NewSock == [open |-> TRUE, wire |-> << >>, wlog |-> << >>, cut |-> FALSE,
            inbox |-> << >>, guid |-> -1, hb |-> 0, closedBy |-> ""]

ReadPcs == {"hsVersionRead", "hsSdkRead", "hsInfoRead", "cmdRead"}
CanRead(p) ==
    /\ iosock[p] # 0
    /\ socks[iosock[p]].open
    /\ socks[iosock[p]].inbox # << >>
NextPacket(p) == Head(socks[iosock[p]].inbox)

\* the peer: the GUIDs it can put in its GetIFVersion response (a GUID of its
\* own, the placeholder of the request, none), and its answers to a packet.
\* Every peer can refuse the version ask, or answer it with a short frame or
\* with a frame of another type.  SteadyPeer assigns its GUID and answers
\* every SDK command; AnyPeer can also leave the GUID out or echo the
\* placeholder, can refuse GetDeviceInfo and can leave the version ask
\* without an answer.
DeviceGuids == {97, GuidPlaceholder, 0}
SteadyPeer == [guids |-> {97}, refusesInfo |-> FALSE, silent |-> FALSE, garbles |-> FALSE]
AnyPeer == [guids |-> DeviceGuids, refusesInfo |-> TRUE, silent |-> TRUE, garbles |-> FALSE]
\* GarblingPeer also breaks the protocol when it answers a command: a frame
\* whose length field is below the header size, an SDK answer without its
\* 12-byte header, a frame of a command type no command expects, and
\* fragments that overrun the total of their response (by their payload, by
\* their offset); it can also leave a command without an answer
GarblingPeer == [guids |-> {97}, refusesInfo |-> FALSE, silent |-> FALSE, garbles |-> TRUE]
Garbled ==
    { << >>,
      << PutUint16(2) >>,
      << MkFrame(CmdSdkCmdAnswer, << 1, 2 >>) >>,
      << MkFrame(CmdServiceAnswer, << >>) >>,
      << MkFrame(CmdSdkCmdAnswer, PutUint32(2) \o PutUint32(1) \o << 97, 84, 1 >>) >>,
      << MkFrame(CmdSdkCmdAnswer, PutUint32(2) \o PutUint32(3) \o << 97 >>) >> }
\* the SDK packet ends the XML document it is a fragment of: the peer answers
\* a request when it has all of it
LastFragment(pkt) ==
    LET h == parseSdkCmdHeader(pkt)
    IN  h.ok /\ h.xmlOffset + (Len(pkt) - sdkCmdHeaderLength) >= h.totalLen
SdkReply(xml) == MkFrame(CmdSdkCmdAnswer, PutUint32(Len(xml)) \o PutUint32(0) \o xml)
DeviceAnswers(peer, pkt) ==
    LET cmd == Uint16(pkt, 2)
        xml == Drop(pkt, sdkCmdHeaderLength)
    IN  CASE cmd = CmdServiceAsk ->
               { << MkFrame(CmdServiceAnswer, Drop(pkt, tcpHeaderLength)) >>,
                 << MkFrame(CmdErrorAnswer, PutUint16(3)) >>,
                 << MkFrame(CmdServiceAnswer, << >>) >>,
                 << MkFrame(CmdHeartbeatAnswer, << >>) >> }
               \cup (IF peer.silent THEN { << >> } ELSE { })
          [] cmd = CmdHeartbeatAsk -> { << MkFrame(CmdHeartbeatAnswer, << >>) >> }
          [] cmd = CmdSdkCmdAsk /\ Len(xml) >= 2 /\ LastFragment(pkt) ->
               IF xml[2] = MethodGetIFVersion
               THEN { << SdkReply(<< g, xml[2], ResultSuccess >>) >> : g \in peer.guids }
               ELSE IF xml[2] = MethodGetDeviceInfo /\ peer.refusesInfo
               THEN { << SdkReply(<< xml[1], xml[2], ResultSuccess, xml[2] >>) >>,
                      << MkFrame(CmdErrorAnswer, PutUint16(3)) >> }
               ELSE { << SdkReply(<< xml[1], xml[2], ResultSuccess, xml[2] >>) >> }
                      \cup (IF peer.garbles THEN Garbled ELSE { })
          [] OTHER -> { << >> }

\* the Device NewDevice returns, with ops public method calls to come
DevNew(ops) ==
    /\ conn = 0 /\ connected = FALSE /\ sdkGUID = 0 /\ info = NilInfo
    /\ stopHeartbeat = 0 /\ mu = 0 /\ writeMu = 0
    /\ nChans = 0 /\ closedChans = { } /\ socks = << >>
    /\ pc = [p \in Procs |-> IF p \in Callers THEN "idle" ELSE "hbNone"]
    /\ op = [p \in Procs |-> "none"]
    /\ wq = [p \in Procs |-> << >>]
    /\ iosock = [p \in Procs |-> 0]
    /\ cont = [p \in Procs |-> [ok |-> "", err |-> ""]]
    /\ rsLoc = [p \in Procs |-> RsInit]
    /\ hbch = [p \in Procs |-> 0]
    /\ method = [p \in Procs |-> 0]
    /\ lastResp = [p \in Procs |-> NoResp]
    /\ result = [p \in Procs |-> ""]
    /\ opsLeft = ops /\ ticks = 0
DevIdle == DevNew(0)

\* d.mu.Unlock() of the heartbeat tick, before sendRaw: the holder of mu afterwards
hbUnlockMutant(h) == h
hbUnlock(h) == 0

\* one iteration of the loop of readSdkResponse: readPacket, then the switch
ReadSdkStep ==
    /\ cyPc = "reading"
    /\ inFrames # << >>
    /\ LET data == Head(inFrames) IN
       /\ rs' = sdkStep(rs, data)
       /\ covered' = covered \cup CopiedTo(rs, data)
       /\ noHb' = IF Uint16(data, 2) = CmdHeartbeatAnswer \/ noHb.out.kind # "none"
                  THEN noHb ELSE sdkStep(noHb, data)
       /\ readLog' = Append(readLog, Uint16(data, 2))
       /\ inFrames' = Tail(inFrames)
       /\ cyPc' = IF rs'.out.kind = "none" THEN "reading" ELSE "done"
    /\ UNCHANGED << xmlData, built, nWritten, wire, nSent >>
    /\ UNCHANGED << frameVars, devVars, upVars >>

\* readPacket fails on its deadline: the peer has nothing more to send
ReadSdkDeadline ==
    /\ cyPc = "reading"
    /\ inFrames = << >>
    /\ wire = << >>
    /\ rs' = [rs EXCEPT !.out = Failed("deadline", 0)]
    /\ noHb' = IF noHb.out.kind = "none"
               THEN [noHb EXCEPT !.out = Failed("deadline", 0)] ELSE noHb
    /\ cyPc' = "done"
    /\ UNCHANGED << xmlData, built, nWritten, wire, inFrames, nSent, covered, readLog >>
    /\ UNCHANGED << frameVars, devVars, upVars >>

(***************************************************************************)
(* readSdkResponse fed arbitrary frames by the peer.                       *)
(***************************************************************************)
\* an SDK answer fragment as a device builds it; the chunk bytes tell their
\* position in the response
SdkAnswer(total, offset, n) ==
    PutUint16(sdkCmdHeaderLength + n) \o PutUint16(CmdSdkCmdAnswer)
        \o PutUint32(total) \o PutUint32(offset) \o [i \in 1..n |-> 64 + offset + i]

AsmFrames ==
    { SdkAnswer(t, o, n) : t \in 1..MaxTotal, o \in 0..(MaxTotal + 1), n \in 1..2 }
      \cup { MkFrame(CmdSdkCmdAnswer, << 1, 0, 0, 0 >>),
             MkFrame(CmdHeartbeatAnswer, << >>),
             MkFrame(CmdHeartbeatAnswer, << 7 >>),
             MkFrame(CmdErrorAnswer, PutUint16(43)),
             MkFrame(CmdErrorAnswer, << >>),
             MkFrame(CmdFileEndAnswer, PutUint16(0)) }

InitAsm ==
    /\ FrameIdle
    /\ DevIdle
    /\ UpIdle
    /\ xmlData = << >> /\ built = << >> /\ nWritten = 0 /\ wire = << >>
    /\ inFrames = << >> /\ nSent = 0 /\ rs = RsInit /\ covered = { }
    /\ noHb = RsInit /\ readLog = << >>
    /\ cyPc = "reading"

\* the peer sends one more frame
PeerSend ==
    /\ cyPc = "reading"
    /\ inFrames = << >>
    /\ nSent < MaxAsmFrames
    /\ \E f \in AsmFrames : inFrames' = << f >>
    /\ nSent' = nSent + 1
    /\ UNCHANGED << xmlData, built, nWritten, wire, rs, covered, noHb, readLog, cyPc >>
    /\ UNCHANGED << frameVars, devVars, upVars >>

NextAsm == PeerSend \/ ReadSdkStep \/ ReadSdkDeadline

SpecAsm == InitAsm /\ [][NextAsm]_vars

(***************************************************************************)
(* One cycle against a loopback peer that echoes the request fragments     *)
(* back as SDK answers.                                                    *)
(***************************************************************************)
(* The Device shared by two calling goroutines and the heartbeat           *)
(* goroutines Connect starts.  A step is what a goroutine does between two *)
(* points where it can block or be overtaken: a lock acquisition, a dial,  *)
(* the two halves of a conn.Write, a readPacket.  Fields read without a    *)
(* lock (conn, connected, sdkGUID, stopHeartbeat) are read at the step     *)
(* that uses them.  The peer answers a frame when its last byte is         *)
(* written; its answers wait in the socket until a readPacket takes them.  *)
(***************************************************************************)
\* what a send (sendRaw, or the loop of sendSdkCmd) starts with: the packets
\* to write, where the caller goes on when all are written, and on an error
StartSend(p, pkts, okPc, errPc) ==
    /\ wq' = [wq EXCEPT ![p] = pkts]
    /\ cont' = [cont EXCEPT ![p] = [ok |-> okPc, err |-> errPc]]
    /\ pc' = [pc EXCEPT ![p] = IF pkts = << >> THEN okPc ELSE "sendRaw"]

\* the goroutine leaves its send or read with an error
Leave(p, why) ==
    /\ pc' = [pc EXCEPT ![p] = cont[p].err]
    /\ result' = [result EXCEPT ![p] = why]
    /\ wq' = [wq EXCEPT ![p] = << >>]
    /\ rsLoc' = [rsLoc EXCEPT ![p] = RsInit]
    /\ iosock' = [iosock EXCEPT ![p] = 0]
    /\ op' = [op EXCEPT ![p] = IF cont[p].err = "idle" THEN "none" ELSE @]

\* closeInternal, called by the public method by ("Connect" or "Close")
closeInternalMutant(by) ==
    /\ closedChans' = IF stopHeartbeat # 0 THEN closedChans \cup {stopHeartbeat}
                      ELSE closedChans
    /\ stopHeartbeat' = 0
    /\ connected' = FALSE
    /\ socks' = socks
    /\ conn' = 0
closeInternal(by) ==
    /\ closedChans' = IF stopHeartbeat # 0 THEN closedChans \cup {stopHeartbeat}
                      ELSE closedChans
    /\ stopHeartbeat' = 0
    /\ connected' = FALSE
    /\ socks' = IF conn # 0
                THEN [socks EXCEPT ![conn].open = FALSE, ![conn].closedBy = by]
                ELSE socks
    /\ conn' = 0

\* what closeInternal returns: the result of conn.Close() if there is a
\* socket, nil otherwise
closeInternalResult == IF conn # 0 THEN "connClose" ELSE "nil"

\* d.writeMu.Lock() in sendRaw: the holder of writeMu afterwards
writeMuLockMutant(p) == 0
writeMuLock(p) == p

\* conn.Write hands the packet to the socket in two parts
FirstPart(pkt) == Take(pkt, Len(pkt) \div 2)
RestPart(pkt) == Drop(pkt, Len(pkt) \div 2)


\* Connect: d.mu.Lock(); closeInternal() if a connection exists
ConnectLock(p) ==
    /\ p \in Callers /\ pc[p] = "idle" /\ opsLeft > 0
    /\ mu = 0
    /\ mu' = p
    /\ opsLeft' = opsLeft - 1
    /\ IF conn # 0 THEN closeInternal("Connect")
       ELSE UNCHANGED << closedChans, stopHeartbeat, connected, socks, conn >>
    /\ pc' = [pc EXCEPT ![p] = "dial"]
    /\ op' = [op EXCEPT ![p] = "connect"]
    /\ result' = [result EXCEPT ![p] = ""]
    /\ UNCHANGED << sdkGUID, info, writeMu, nChans, wq, iosock, cont, rsLoc, hbch,
                    method, lastResp, ticks >>
    /\ UNCHANGED << frameVars, cycleVars, upVars >>

\* net.DialTimeout fails: Connect returns, the deferred Unlock runs
ConnectDialFail(p) ==
    /\ pc[p] = "dial"
    /\ mu' = 0
    /\ pc' = [pc EXCEPT ![p] = "idle"]
    /\ op' = [op EXCEPT ![p] = "none"]
    /\ result' = [result EXCEPT ![p] = "dialError"]
    /\ UNCHANGED << conn, connected, sdkGUID, info, stopHeartbeat, writeMu, nChans,
                    closedChans, socks, wq, iosock, cont, rsLoc, hbch, method, lastResp,
                    opsLeft, ticks >>
    /\ UNCHANGED << frameVars, cycleVars, upVars >>

\* net.DialTimeout succeeds: d.conn = conn; d.connected = true;
\* handshakeVersion starts with sendRaw(buildVersionPacket())
ConnectDialOk(p) ==
    /\ pc[p] = "dial"
    /\ socks' = Append(socks, NewSock)
    /\ conn' = Len(socks) + 1
    /\ connected' = TRUE
    /\ StartSend(p, << buildVersionPacket >>, "hsVersionRead", "connectFail")
    /\ UNCHANGED << sdkGUID, info, stopHeartbeat, mu, writeMu, nChans, closedChans, op,
                    iosock, rsLoc, hbch, method, lastResp, result, opsLeft, ticks >>
    /\ UNCHANGED << frameVars, cycleVars, upVars >>

\* sendRaw: writeMu.Lock(); the d.conn == nil check; the first part of conn.Write
SendRawBegin(p) ==
    /\ pc[p] = "sendRaw"
    /\ writeMu = 0
    /\ IF conn = 0
       THEN /\ Leave(p, "closed")
            /\ UNCHANGED << writeMu, socks >>
       ELSE /\ writeMu' = writeMuLock(p)
            /\ iosock' = [iosock EXCEPT ![p] = conn]
            /\ socks' = [socks EXCEPT ![conn].wire = @ \o FirstPart(Head(wq[p]))]
            /\ pc' = [pc EXCEPT ![p] = "writing"]
            /\ UNCHANGED << wq, rsLoc, result, op >>
    /\ UNCHANGED << conn, connected, sdkGUID, info, stopHeartbeat, mu, nChans,
                    closedChans, cont, hbch, method, lastResp, opsLeft, ticks >>
    /\ UNCHANGED << frameVars, cycleVars, upVars >>

\* sendRaw: the rest of conn.Write, the deferred writeMu.Unlock(); the loop of
\* sendSdkCmd goes on with the next packet.  The write fails if the socket
\* was closed meanwhile.  The peer answers the packet.
SendRawEnd(p, peer) ==
    /\ pc[p] = "writing"
    /\ writeMu' = 0
    /\ LET s == iosock[p]
           pkt == Head(wq[p])
       IN  IF ~socks[s].open
           THEN /\ socks' = [socks EXCEPT ![s].cut = TRUE]
                /\ Leave(p, "writeError")
           ELSE /\ \E ans \in DeviceAnswers(peer, pkt) :
                     socks' = [socks EXCEPT ![s].wire = @ \o RestPart(pkt),
                                            ![s].wlog = Append(@, pkt),
                                            ![s].inbox = @ \o ans]
                /\ wq' = [wq EXCEPT ![p] = Tail(@)]
                /\ pc' = [pc EXCEPT ![p] = IF Tail(wq[p]) = << >> THEN cont[p].ok
                                          ELSE "sendRaw"]
                /\ iosock' = [iosock EXCEPT ![p] = conn]
                /\ UNCHANGED << rsLoc, result, op >>
    /\ UNCHANGED << conn, connected, sdkGUID, info, stopHeartbeat, mu, nChans,
                    closedChans, cont, hbch, method, lastResp, opsLeft, ticks >>
    /\ UNCHANGED << frameVars, cycleVars, upVars >>

ReadFailMutant(p) ==
    /\ pc[p] \in ReadPcs
    /\ \/ iosock[p] = 0
       \/ ~socks[iosock[p]].open
       \/ socks[iosock[p]].inbox = << >>
    /\ Leave(p, IF iosock[p] = 0 \/ ~socks[iosock[p]].open THEN "closed" ELSE "deadline")
    /\ connected' = FALSE
    /\ UNCHANGED << conn, sdkGUID, info, stopHeartbeat, mu, writeMu, nChans,
                    closedChans, socks, cont, hbch, method, lastResp, opsLeft, ticks >>
    /\ UNCHANGED << frameVars, cycleVars, upVars >>

\* readPacket fails: d.conn is nil, the socket was closed, or the deadline
\* passes with nothing to read
ReadFail(p) ==
    /\ pc[p] \in ReadPcs
    /\ \/ iosock[p] = 0
       \/ ~socks[iosock[p]].open
       \/ socks[iosock[p]].inbox = << >>
    /\ Leave(p, IF iosock[p] = 0 \/ ~socks[iosock[p]].open THEN "closed" ELSE "deadline")
    /\ UNCHANGED << conn, connected, sdkGUID, info, stopHeartbeat, mu, writeMu, nChans,
                    closedChans, socks, cont, hbch, method, lastResp, opsLeft, ticks >>
    /\ UNCHANGED << frameVars, cycleVars, upVars >>

\* handshakeVersion: readPacket and the switch on the answer; on success
\* handshakeSdkVersion starts with sendSdkCmd(buildVersionXML())
HsVersionRead(p) ==
    /\ pc[p] = "hsVersionRead"
    /\ CanRead(p)
    /\ LET data == NextPacket(p) IN
       /\ socks' = [socks EXCEPT ![iosock[p]].inbox = Tail(@)]
       /\ IF Uint16(data, 2) = CmdServiceAnswer /\ parseVersionResponse(data).ok
          THEN /\ StartSend(p, buildSdkCmdPackets(buildVersionXML), "hsSdkRead",
                            "connectFail")
               /\ UNCHANGED << result, rsLoc, iosock, op >>
          ELSE /\ Leave(p, IF Uint16(data, 2) = CmdErrorAnswer THEN "device"
                           ELSE "unexpected")
               /\ UNCHANGED cont
    /\ UNCHANGED << conn, connected, sdkGUID, info, stopHeartbeat, mu, writeMu, nChans,
                    closedChans, hbch, method, lastResp, opsLeft, ticks >>
    /\ UNCHANGED << frameVars, cycleVars, upVars >>

\* handshakeSdkVersion: one iteration of readSdkResponse; on the response
\* d.sdkGUID is set and handshakeDeviceInfo starts
HsSdkRead(p) ==
    /\ pc[p] = "hsSdkRead"
    /\ CanRead(p)
    /\ LET st == sdkStep(rsLoc[p], NextPacket(p))
           resp == parseSdkResponse(st.out.xmlStr)
           guid == sessionGUID(resp.GUID)
       IN  /\ socks' = [socks EXCEPT ![iosock[p]].inbox = Tail(@),
                                     ![iosock[p]].guid =
                                         IF st.out.kind = "response" /\ resp.ok
                                         THEN resp.GUID ELSE @]
           /\ CASE st.out.kind = "none" ->
                     /\ rsLoc' = [rsLoc EXCEPT ![p] = st]
                     /\ iosock' = [iosock EXCEPT ![p] = conn]
                     /\ UNCHANGED << sdkGUID, wq, cont, pc, result, op >>
                [] st.out.kind = "response" /\ resp.ok ->
                     /\ sdkGUID' = guid
                     /\ rsLoc' = [rsLoc EXCEPT ![p] = RsInit]
                     /\ StartSend(p, buildSdkCmdPackets(
                                      buildSdkXML(guid, MethodGetDeviceInfo, << >>)),
                                  "hsInfoRead", "connectReady")
                     /\ UNCHANGED << iosock, result, op >>
                [] OTHER ->
                     /\ Leave(p, IF st.out.kind = "error" THEN st.out.err ELSE "badXML")
                     /\ UNCHANGED << sdkGUID, cont >>
    /\ UNCHANGED << conn, connected, info, stopHeartbeat, mu, writeMu, nChans,
                    closedChans, hbch, method, lastResp, opsLeft, ticks >>
    /\ UNCHANGED << frameVars, cycleVars, upVars >>

\* handshakeDeviceInfo: one iteration of readSdkResponse; on a successful
\* response d.info is set; a failure does not fail Connect
HsInfoRead(p) ==
    /\ pc[p] = "hsInfoRead"
    /\ CanRead(p)
    /\ socks' = [socks EXCEPT ![iosock[p]].inbox = Tail(@)]
    /\ LET st == sdkStep(rsLoc[p], NextPacket(p))
           resp == parseSdkResponse(st.out.xmlStr)
       IN  CASE st.out.kind = "none" ->
                  /\ rsLoc' = [rsLoc EXCEPT ![p] = st]
                  /\ iosock' = [iosock EXCEPT ![p] = conn]
                  /\ UNCHANGED << info, wq, pc, result, op >>
             [] st.out.kind = "response" /\ resp.ok ->
                  /\ info' = IF IsSuccess(resp) THEN parseDeviceInfoXML(resp.InnerXML)
                             ELSE info
                  /\ result' = [result EXCEPT ![p] = IF IsSuccess(resp) THEN @
                                                     ELSE "notSuccess"]
                  /\ rsLoc' = [rsLoc EXCEPT ![p] = RsInit]
                  /\ pc' = [pc EXCEPT ![p] = "connectReady"]
                  /\ iosock' = [iosock EXCEPT ![p] = 0]
                  /\ UNCHANGED << wq, op >>
             [] OTHER ->
                  /\ Leave(p, IF st.out.kind = "error" THEN st.out.err ELSE "badXML")
                  /\ UNCHANGED info
    /\ UNCHANGED << conn, connected, sdkGUID, stopHeartbeat, mu, writeMu, nChans,
                    closedChans, cont, hbch, method, lastResp, opsLeft, ticks >>
    /\ UNCHANGED << frameVars, cycleVars, upVars >>

\* Connect after a failed phase 1 or 2: closeInternal(), return the error
ConnectFail(p) ==
    /\ pc[p] = "connectFail"
    /\ closeInternal("Connect")
    /\ mu' = 0
    /\ pc' = [pc EXCEPT ![p] = "idle"]
    /\ op' = [op EXCEPT ![p] = "none"]
    /\ UNCHANGED << sdkGUID, info, writeMu, nChans, wq, iosock, cont, rsLoc, hbch,
                    method, lastResp, result, opsLeft, ticks >>
    /\ UNCHANGED << frameVars, cycleVars, upVars >>

\* Connect after phase 3: d.stopHeartbeat = make(chan struct{});
\* go d.heartbeatLoop(); return nil
ConnectReady(p) ==
    /\ pc[p] = "connectReady"
    /\ nChans' = nChans + 1
    /\ stopHeartbeat' = nChans + 1
    /\ pc' = [pc EXCEPT ![p] = "idle", ![HbOf(nChans + 1)] = "hbLoop"]
    /\ mu' = 0
    /\ op' = [op EXCEPT ![p] = "none"]
    /\ result' = [result EXCEPT ![p] = "connected"]
    /\ socks' = [socks EXCEPT ![conn].hb = HbOf(nChans + 1)]
    /\ UNCHANGED << conn, connected, sdkGUID, info, writeMu, closedChans, wq,
                    iosock, cont, rsLoc, hbch, method, lastResp, opsLeft, ticks >>
    /\ UNCHANGED << frameVars, cycleVars, upVars >>

\* Close: d.mu.Lock(); closeInternal(); Unlock
Close(p) ==
    /\ p \in Callers /\ pc[p] = "idle" /\ opsLeft > 0
    /\ mu = 0
    /\ opsLeft' = opsLeft - 1
    /\ closeInternal("Close")
    /\ result' = [result EXCEPT ![p] = closeInternalResult]
    /\ UNCHANGED << sdkGUID, info, mu, writeMu, nChans, pc, op, wq, iosock, cont,
                    rsLoc, hbch, method, lastResp, ticks >>
    /\ UNCHANGED << frameVars, cycleVars, upVars >>

\* a command whose ensureConnected fails
CommandRejected(p) ==
    /\ p \in Callers /\ pc[p] = "idle" /\ opsLeft > 0
    /\ ~ensureConnected
    /\ opsLeft' = opsLeft - 1
    /\ result' = [result EXCEPT ![p] = "notConnected"]
    /\ UNCHANGED << conn, connected, sdkGUID, info, stopHeartbeat, mu, writeMu, nChans,
                    closedChans, socks, pc, op, wq, iosock, cont, rsLoc, hbch, method,
                    lastResp, ticks >>
    /\ UNCHANGED << frameVars, cycleVars, upVars >>

\* a command (GetDeviceInfo and its like): ensureConnected, buildSdkXML with
\* d.sdkGUID, then sendSdkCmdAndReceive
CommandStart(p, m) ==
    /\ p \in Callers /\ pc[p] = "idle" /\ opsLeft > 0
    /\ ensureConnected
    /\ opsLeft' = opsLeft - 1
    /\ op' = [op EXCEPT ![p] = "command"]
    /\ method' = [method EXCEPT ![p] = m]
    /\ lastResp' = [lastResp EXCEPT ![p] = NoResp]
    /\ result' = [result EXCEPT ![p] = ""]
    /\ StartSend(p, buildSdkCmdPackets(buildSdkXML(sdkGUID, m, << >>)), "cmdRead", "idle")
    /\ UNCHANGED << conn, connected, sdkGUID, info, stopHeartbeat, mu, writeMu, nChans,
                    closedChans, socks, iosock, rsLoc, hbch, ticks >>
    /\ UNCHANGED << frameVars, cycleVars, upVars >>

CmdReadMutant(p) ==
    /\ pc[p] = "cmdRead"
    /\ CanRead(p)
    /\ socks' = [socks EXCEPT ![iosock[p]].inbox = Tail(@)]
    /\ Leave(p, "unexpected")
    /\ connected' = FALSE
    /\ UNCHANGED << conn, sdkGUID, info, stopHeartbeat, mu, writeMu, nChans,
                    closedChans, cont, hbch, method, lastResp, opsLeft, ticks >>
    /\ UNCHANGED << frameVars, cycleVars, upVars >>

\* a command: one iteration of readSdkResponse; GetDeviceInfo goes on to
\* cache the descriptor
CmdRead(p) ==
    /\ pc[p] = "cmdRead"
    /\ CanRead(p)
    /\ socks' = [socks EXCEPT ![iosock[p]].inbox = Tail(@)]
    /\ LET st == sdkStep(rsLoc[p], NextPacket(p))
           resp == parseSdkResponse(st.out.xmlStr)
           caches == method[p] = MethodGetDeviceInfo /\ IsSuccess(resp)
       IN  CASE st.out.kind = "none" ->
                  /\ rsLoc' = [rsLoc EXCEPT ![p] = st]
                  /\ iosock' = [iosock EXCEPT ![p] = conn]
                  /\ UNCHANGED << lastResp, wq, pc, result, op >>
             [] st.out.kind = "response" /\ resp.ok ->
                  /\ lastResp' = [lastResp EXCEPT ![p] = resp]
                  /\ rsLoc' = [rsLoc EXCEPT ![p] = RsInit]
                  /\ iosock' = [iosock EXCEPT ![p] = 0]
                  /\ pc' = [pc EXCEPT ![p] = IF caches THEN "cacheInfo" ELSE "idle"]
                  /\ op' = [op EXCEPT ![p] = IF caches THEN @ ELSE "none"]
                  /\ result' = [result EXCEPT ![p] = IF caches THEN @ ELSE "response"]
                  /\ UNCHANGED wq
             [] OTHER ->
                  /\ Leave(p, IF st.out.kind = "error" THEN st.out.err ELSE "badXML")
                  /\ UNCHANGED lastResp
    /\ UNCHANGED << conn, connected, sdkGUID, info, stopHeartbeat, mu, writeMu, nChans,
                    closedChans, cont, hbch, method, opsLeft, ticks >>
    /\ UNCHANGED << frameVars, cycleVars, upVars >>

\* GetDeviceInfo: d.mu.Lock(); d.info = info; d.mu.Unlock()
CacheInfo(p) ==
    /\ pc[p] = "cacheInfo"
    /\ mu = 0
    /\ info' = parseDeviceInfoXML(lastResp[p].InnerXML)
    /\ pc' = [pc EXCEPT ![p] = "idle"]
    /\ op' = [op EXCEPT ![p] = "none"]
    /\ result' = [result EXCEPT ![p] = "response"]
    /\ UNCHANGED << conn, connected, sdkGUID, stopHeartbeat, mu, writeMu, nChans,
                    closedChans, socks, wq, iosock, cont, rsLoc, hbch, method, lastResp,
                    opsLeft, ticks >>
    /\ UNCHANGED << frameVars, cycleVars, upVars >>

\* heartbeatLoop enters its select: d.stopHeartbeat is evaluated
HbSelect(h) ==
    /\ pc[h] = "hbLoop"
    /\ hbch' = [hbch EXCEPT ![h] = stopHeartbeat]
    /\ pc' = [pc EXCEPT ![h] = "hbSelect"]
    /\ UNCHANGED << conn, connected, sdkGUID, info, stopHeartbeat, mu, writeMu, nChans,
                    closedChans, socks, op, wq, iosock, cont, rsLoc, method, lastResp,
                    result, opsLeft, ticks >>
    /\ UNCHANGED << frameVars, cycleVars, upVars >>

\* case <-d.stopHeartbeat: the channel is closed, the loop returns
HbStop(h) ==
    /\ pc[h] = "hbSelect"
    /\ hbch[h] \in closedChans
    /\ pc' = [pc EXCEPT ![h] = "hbDone"]
    /\ result' = [result EXCEPT ![h] = "stopped"]
    /\ UNCHANGED << conn, connected, sdkGUID, info, stopHeartbeat, mu, writeMu, nChans,
                    closedChans, socks, op, wq, iosock, cont, rsLoc, hbch, method, lastResp,
                    opsLeft, ticks >>
    /\ UNCHANGED << frameVars, cycleVars, upVars >>

\* case <-ticker.C
HbTick(h) ==
    /\ pc[h] = "hbSelect"
    /\ ticks < MaxTicks
    /\ ticks' = ticks + 1
    /\ pc' = [pc EXCEPT ![h] = "hbLock"]
    /\ UNCHANGED << conn, connected, sdkGUID, info, stopHeartbeat, mu, writeMu, nChans,
                    closedChans, socks, op, wq, iosock, cont, rsLoc, hbch, method, lastResp,
                    result, opsLeft >>
    /\ UNCHANGED << frameVars, cycleVars, upVars >>

\* the tick: d.mu.Lock()
HbLock(h) ==
    /\ pc[h] = "hbLock"
    /\ mu = 0
    /\ mu' = h
    /\ pc' = [pc EXCEPT ![h] = "hbCheck"]
    /\ UNCHANGED << conn, connected, sdkGUID, info, stopHeartbeat, writeMu, nChans,
                    closedChans, socks, op, wq, iosock, cont, rsLoc, hbch, method, lastResp,
                    result, opsLeft, ticks >>
    /\ UNCHANGED << frameVars, cycleVars, upVars >>

\* where heartbeatLoop goes on when its sendRaw returns an error: return
hbOnErrorMutant == "hbLoop"
hbOnError == "hbDone"

\* the tick: the d.connected test, d.mu.Unlock(), then sendRaw(buildHeartbeat())
HbCheck(h) ==
    /\ pc[h] = "hbCheck"
    /\ IF ~connected
       THEN /\ mu' = 0
            /\ pc' = [pc EXCEPT ![h] = "hbDone"]
            /\ result' = [result EXCEPT ![h] = "notConnected"]
            /\ UNCHANGED << wq, cont >>
       ELSE /\ mu' = hbUnlock(h)
            /\ StartSend(h, << buildHeartbeat >>, "hbLoop", hbOnError)
            /\ UNCHANGED result
    /\ UNCHANGED << conn, connected, sdkGUID, info, stopHeartbeat, writeMu, nChans,
                    closedChans, socks, op, iosock, rsLoc, hbch, method, lastResp, opsLeft,
                    ticks >>
    /\ UNCHANGED << frameVars, cycleVars, upVars >>

Next ==
    \/ \E p \in Callers : ConnectLock(p)
    \/ \E p \in Callers : ConnectDialFail(p)
    \/ \E p \in Callers : ConnectDialOk(p)
    \/ \E p \in Procs : SendRawBegin(p)
    \/ \E p \in Procs : SendRawEnd(p, SteadyPeer)
    \/ \E p \in Callers : ReadFail(p)
    \/ \E p \in Callers : HsVersionRead(p)
    \/ \E p \in Callers : HsSdkRead(p)
    \/ \E p \in Callers : HsInfoRead(p)
    \/ \E p \in Callers : ConnectFail(p)
    \/ \E p \in Callers : ConnectReady(p)
    \/ \E p \in Callers : Close(p)
    \/ \E p \in Callers : CommandRejected(p)
    \/ \E p \in Callers, m \in Methods : CommandStart(p, m)
    \/ \E p \in Callers : CmdRead(p)
    \/ \E p \in Callers : CacheInfo(p)
    \/ \E h \in HbIds : HbSelect(h)
    \/ \E h \in HbIds : HbStop(h)
    \/ \E h \in HbIds : HbTick(h)
    \/ \E h \in HbIds : HbLock(h)
    \/ \E h \in HbIds : HbCheck(h)

Init == FrameIdle /\ CycleIdle /\ DevNew(MaxOps) /\ UpIdle

Spec == Init /\ [][Next]_vars

(***************************************************************************)
(* The Device used by one goroutine, call after call, against a peer that  *)
(* can answer the handshake in every way.  The calls follow each other     *)
(* within one heartbeat interval (30 s unless configured): the heartbeat   *)
(* goroutines enter their select and are stopped, their tickers never      *)
(* fire.                                                                   *)
(***************************************************************************)
NextHs ==
    \/ ConnectLock(1)
    \/ ConnectDialFail(1)
    \/ ConnectDialOk(1)
    \/ SendRawBegin(1)
    \/ SendRawEnd(1, AnyPeer)
    \/ ReadFail(1)
    \/ HsVersionRead(1)
    \/ HsSdkRead(1)
    \/ HsInfoRead(1)
    \/ ConnectFail(1)
    \/ ConnectReady(1)
    \/ Close(1)
    \/ CommandRejected(1)
    \/ \E m \in Methods : CommandStart(1, m)
    \/ CmdRead(1)
    \/ CacheInfo(1)
    \/ \E h \in HbIds : HbSelect(h)
    \/ \E h \in HbIds : HbStop(h)

SpecHs == Init /\ [][NextHs]_vars

(***************************************************************************)
(* Claims about the concurrent use of one Device.                          *)
(***************************************************************************)
\* a sendSdkCmdAndReceive of goroutine p is under way: its first conn.Write
\* has begun and its readSdkResponse has not returned
SdkReadPcs == {"hsSdkRead", "hsInfoRead", "cmdRead"}
InCycle(p) ==
    \/ pc[p] \in SdkReadPcs
    \/ pc[p] = "writing" /\ cont[p].ok \in SdkReadPcs

\* C1: at most one command/response cycle is between its first frame write
\* and its final frame read at any time, and the response a command returns
\* is the answer to its own request
C1_OneCycleAtATime ==
    /\ Cardinality({ p \in Callers : InCycle(p) }) <= 1
    /\ \A p \in Callers : lastResp[p].ok => lastResp[p].Method = method[p]

\* what was written to socket s after its last whole packet
PartialWrite(s) == Drop(socks[s].wire, Len(Concat(socks[s].wlog)))

\* C2: writeMu is held exactly while one packet is being written, and the
\* bytes on every socket are whole packets back to back, followed at most by
\* the part already written of the packet the holder of writeMu is writing
\* (or of the one packet whose write the closing of the socket cut short)
C2_FramesNeverInterleaved ==
    /\ \A p \in Procs : (pc[p] = "writing") <=> (writeMu = p)
    /\ \A s \in 1..Len(socks) :
         /\ Len(socks[s].wire) >= Len(Concat(socks[s].wlog))
         /\ Take(socks[s].wire, Len(Concat(socks[s].wlog))) = Concat(socks[s].wlog)
         /\ \/ PartialWrite(s) = << >>
            \/ \E p \in Procs : /\ writeMu = p /\ iosock[p] = s
                                /\ PartialWrite(s) = FirstPart(Head(wq[p]))
            \/ socks[s].cut /\ ~socks[s].open

\* a heartbeatLoop is in the middle of its conn.Write while a command waits
\* in sendRaw for writeMu, on a socket that already carries whole packets
C2_Witness ==
    \E h \in HbIds, p \in Callers :
        /\ pc[h] = "writing" /\ writeMu = h
        /\ pc[p] = "sendRaw" /\ op[p] = "command"
        /\ conn = iosock[h]
        /\ Len(socks[conn].wlog) >= 3
        /\ PartialWrite(conn) = FirstPart(buildHeartbeat)

\* the goroutine is in a blocking socket operation: dial, write or read
InSocketIO(p) == pc[p] \in ({"dial", "writing"} \cup ReadPcs)

\* C3 as stated: no goroutine holds mu while it is in a blocking socket
\* operation
C3_MuNeverHeldInSocketIO == \A p \in Procs : mu = p => ~InSocketIO(p)

\* C3: only Connect holds mu while in a blocking socket operation, and it
\* holds mu from its entry to its return; the heartbeat loop, Close and the
\* commands never hold mu while they dial, read or write
C3_OnlyConnectHoldsMuInSocketIO ==
    /\ \A p \in Procs : (mu = p /\ InSocketIO(p)) => op[p] = "connect"
    /\ \A p \in Callers : op[p] = "connect" => mu = p

\* a heartbeatLoop is in its conn.Write, mu released, while a Connect holds
\* mu in a socket operation of its own
C3_Witness ==
    \E h \in HbIds, p \in Callers :
        /\ pc[h] = "writing" /\ mu # h
        /\ op[p] = "connect" /\ InSocketIO(p) /\ mu = p

(***************************************************************************)
\* a payload of n bytes; every byte tells its position, "padded" wraps the
\* text in white space, "bom" starts it with a byte-order mark
Payload(n, shape) ==
    [i \in 1..n |->
        CASE shape = "padded" /\ i = 1 -> 32
          [] shape = "padded" /\ i = n -> 10
          [] shape = "bom" /\ i = 1 /\ n >= 3 -> 239
          [] shape = "bom" /\ i = 2 /\ n >= 3 -> 187
          [] shape = "bom" /\ i = 3 /\ n >= 3 -> 191
          [] OTHER -> 33 + ((7 * i) % 90)]

PayloadSizes ==
    { 0, 1, 2, 3 } \cup
    { k * MaxContentLength + d : k \in 1..MaxChunks, d \in {-1, 0, 1} }

InitLoop ==
    /\ FrameIdle
    /\ DevIdle
    /\ UpIdle
    /\ \E n \in PayloadSizes, shape \in {"plain", "padded", "bom"} :
         xmlData = Payload(n, shape)
    /\ built = << >> /\ nWritten = 0 /\ wire = << >>
    /\ inFrames = << >> /\ nSent = 0 /\ rs = RsInit /\ covered = { }
    /\ noHb = RsInit /\ readLog = << >>
    /\ cyPc = "build"

\* sendSdkCmd: packets := buildSdkCmdPackets(xmlData)
BuildPackets ==
    /\ cyPc = "build"
    /\ built' = buildSdkCmdPackets(xmlData)
    /\ cyPc' = "send"
    /\ UNCHANGED << xmlData, nWritten, wire, inFrames, nSent, rs, covered, noHb, readLog >>
    /\ UNCHANGED << frameVars, devVars, upVars >>

\* sendSdkCmd: one sendRaw(pkt) of its loop
WritePacket ==
    /\ cyPc = "send"
    /\ nWritten < Len(built)
    /\ wire' = Append(wire, built[nWritten + 1])
    /\ nWritten' = nWritten + 1
    /\ UNCHANGED << xmlData, built, inFrames, nSent, rs, covered, noHb, readLog, cyPc >>
    /\ UNCHANGED << frameVars, devVars, upVars >>

\* sendSdkCmd returns nil and sendSdkCmdAndReceive goes on to readSdkResponse
StartRead ==
    /\ cyPc = "send"
    /\ nWritten = Len(built)
    /\ cyPc' = "reading"
    /\ UNCHANGED << xmlData, built, nWritten, wire, inFrames, nSent, rs, covered,
                    noHb, readLog >>
    /\ UNCHANGED << frameVars, devVars, upVars >>

\* the loopback peer sends the oldest request fragment back as an SDK answer
PeerEcho ==
    /\ wire # << >>
    /\ LET pkt == Head(wire) IN
       inFrames' = Append(inFrames, Take(pkt, 2) \o PutUint16(CmdSdkCmdAnswer) \o Drop(pkt, 4))
    /\ wire' = Tail(wire)
    /\ nSent' = nSent + 1
    /\ UNCHANGED << xmlData, built, nWritten, rs, covered, noHb, readLog, cyPc >>
    /\ UNCHANGED << frameVars, devVars, upVars >>

NextLoop ==
    BuildPackets \/ WritePacket \/ StartRead \/ PeerEcho \/ ReadSdkStep \/ ReadSdkDeadline

SpecLoop == InitLoop /\ [][NextLoop]_vars

\* the fields of an SDK command packet
FragTotal(pkt) == pkt[5] + 256 * pkt[6] + 65536 * pkt[7] + 16777216 * pkt[8]
FragOffset(pkt) == pkt[9] + 256 * pkt[10] + 65536 * pkt[11] + 16777216 * pkt[12]
FragLen(pkt) == Len(pkt) - 12

\* C6: for a non-empty payload of N bytes buildSdkCmdPackets returns
\* fragments whose offsets start at 0 and each equal the previous offset plus
\* the previous chunk length, whose chunk lengths lie in 1..8000 and end at N,
\* and which all declare the total length N; for an empty payload it returns
\* no frames.
C6_FragmentsCover ==
    cyPc # "build" =>
      LET N == Len(xmlData) IN
      IF N = 0 THEN built = << >>
      ELSE /\ Len(built) >= 1
           /\ FragOffset(built[1]) = 0
           /\ \A i \in 1..Len(built) :
                /\ FragLen(built[i]) >= 1
                /\ FragLen(built[i]) <= 8000
                /\ FragTotal(built[i]) = N
                /\ i < Len(built) =>
                     FragOffset(built[i + 1]) = FragOffset(built[i]) + FragLen(built[i])
           /\ FragOffset(built[Len(built)]) + FragLen(built[Len(built)]) = N

\* a payload of two full chunks and one byte has been cut into three fragments
C6_Witness ==
    /\ cyPc = "send"
    /\ Len(xmlData) = 16001
    /\ Len(built) = 3
    /\ FragLen(built[3]) = 1

\* C7 as stated: for N in {0, 1, 8000, 8001, 24000} the loopback round trip
\* ends with readSdkResponse having reconstructed exactly the original bytes.
C7_RoundTripAllSizes ==
    (cyPc = "done" /\ Len(xmlData) \in {0, 1, 8000, 8001, 24000}) =>
      (rs.out.kind = "response" /\ rs.xmlBuf = xmlData)

\* C7 as amended: for N in {1, 8000, 8001, 24000} the round trip ends with
\* the reassembly buffer equal to the original bytes, which are handed on for
\* parsing less a leading byte-order mark and surrounding white space; for
\* N = 0 no fragment is written and readSdkResponse ends with a read error.
C7_RoundTrip ==
    /\ (cyPc = "done" /\ Len(xmlData) \in {1, 8000, 8001, 24000}) =>
         /\ rs.out.kind = "response"
         /\ rs.xmlBuf = xmlData
         /\ rs.out.xmlStr = cleanXML(xmlData)
    /\ (cyPc = "done" /\ Len(xmlData) = 0) =>
         /\ built = << >> /\ nWritten = 0 /\ nSent = 0
         /\ rs.out.kind = "error"
         /\ rs.out.err = "deadline"

\* 8001 bytes came back in two fragments and were reassembled
C7_Witness ==
    /\ cyPc = "done"
    /\ Len(xmlData) = 8001
    /\ readLog = << CmdSdkCmdAnswer, CmdSdkCmdAnswer >>
    /\ rs.out.kind = "response"

\* the loop iteration of readSdkResponse that takes packet data
TakesPacket(data) == cyPc = "reading" /\ inFrames # << >> /\ data = Head(inFrames)
                       /\ inFrames' = Tail(inFrames)

\* C8: an SDK answer fragment whose offset plus chunk length exceeds the total
\* declared by the first fragment is rejected with the offset-out-of-range
\* error, none of its bytes is copied and no response is returned from it.
C8_OverrunRejected ==
    [][ \A data \in AsmFrames :
          (/\ TakesPacket(data)
           /\ data[3] + 256 * data[4] = 8196
           /\ Len(data) >= 12
           /\ FragOffset(data) + FragLen(data) >
                (IF rs.xmlBufNil THEN FragTotal(data) ELSE rs.totalExpected))
          => (/\ rs'.out.kind = "error"
              /\ rs'.out.err = "offsetOutOfRange"
              /\ (rs.xmlBufNil \/ rs'.xmlBuf = rs.xmlBuf)) ]_vars

\* C9: a response is returned only when every byte of [0, total) has been
\* received, whatever the order of the fragments.
C9_CompleteOnlyWhenAllReceived ==
    rs.out.kind = "response" => covered = 0..(rs.totalExpected - 1)

\* C10: heartbeat answers read by readSdkResponse are discarded: reading one
\* neither ends the call nor changes the buffer or the total, and the call's
\* state and outcome are those of the same call fed the same frames without
\* the heartbeat answers.
C10_HeartbeatAnswersDiscarded ==
    /\ [](rs = noHb)
    /\ [][ \A data \in AsmFrames :
             (TakesPacket(data) /\ data[3] + 256 * data[4] = 96)
             => (rs' = rs /\ cyPc' = "reading") ]_vars

\* a two-byte response was returned from two fragments with a heartbeat
\* answer before and another between them
C10_Witness ==
    /\ readLog = << CmdHeartbeatAnswer, CmdSdkCmdAnswer, CmdHeartbeatAnswer, CmdSdkCmdAnswer >>
    /\ rs.out.kind = "response"
    /\ rs.totalExpected = 2
    /\ covered = {0, 1}

\* the command type of a packet
CmdOf(data) == data[3] + 256 * data[4]

\* C11 as stated: every error answer ends the call with a device error that
\* carries the 2-byte code of the frame, every frame that is no SDK answer,
\* error answer or heartbeat answer ends it with the unexpected-command
\* error, and a call that has ended reads no further frame
C11_ErrorAnswerCarriesCode ==
    /\ [][ \A data \in AsmFrames : TakesPacket(data) =>
             /\ CmdOf(data) = CmdErrorAnswer =>
                  /\ Len(data) >= 6
                  /\ rs'.out = Failed("device", data[5] + 256 * data[6])
                  /\ cyPc' = "done"
             /\ CmdOf(data) \notin {CmdSdkCmdAnswer, CmdErrorAnswer, CmdHeartbeatAnswer} =>
                  /\ rs'.out = Failed("unexpected", 0)
                  /\ cyPc' = "done" ]_vars
    /\ [][ cyPc = "done" => (readLog' = readLog /\ rs' = rs) ]_vars

\* C11: an error answer of at least 6 bytes ends the call with a device error
\* that carries its 2-byte code, a shorter one with a device error without a
\* code; a frame of any other type than SDK answer, error answer or heartbeat
\* answer ends it with the unexpected-command error; no response is returned
\* and a call that has ended reads no further frame
C11_ErrorAndUnexpectedEndCall ==
    /\ [][ \A data \in AsmFrames : TakesPacket(data) =>
             /\ (CmdOf(data) = CmdErrorAnswer /\ Len(data) >= 6) =>
                  /\ rs'.out = Failed("device", data[5] + 256 * data[6])
                  /\ cyPc' = "done"
             /\ (CmdOf(data) = CmdErrorAnswer /\ Len(data) < 6) =>
                  /\ rs'.out = Failed("deviceUnknownFormat", 0)
                  /\ cyPc' = "done"
             /\ CmdOf(data) \notin {CmdSdkCmdAnswer, CmdErrorAnswer, CmdHeartbeatAnswer} =>
                  /\ rs'.out = Failed("unexpected", 0)
                  /\ cyPc' = "done" ]_vars
    /\ [][ cyPc = "done" => (readLog' = readLog /\ rs' = rs) ]_vars

\* after the first of two fragments was buffered, an error answer with code
\* 43 ended the call with that device error
C11_Witness ==
    /\ readLog = << CmdSdkCmdAnswer, CmdErrorAnswer >>
    /\ rs.xmlBufNil = FALSE /\ rs.totalExpected = 2
    /\ rs.out = Failed("device", 43)
    /\ cyPc = "done"

(***************************************************************************)
(* Stream framing.                                                         *)
(***************************************************************************)
FrameCmds == {CmdHeartbeatAnswer, CmdErrorAnswer}
\* payload bytes are 4s: they read as a length field when framing slips
WellFormed ==
    { MkFrame(c, Fill(tcpHeaderLength, n)) : c \in FrameCmds, n \in 0..MaxPayload }
\* what may follow the well-formed frames: nothing, or a header whose length
\* field is below the 4-byte minimum
BadTails == { << >> } \cup { PutUint16(n) \o << 9, 9 >> : n \in 0..3 }

RECURSIVE SeqsUpTo(_, _)
SeqsUpTo(S, n) ==
    IF n = 0 THEN { << >> }
    ELSE LET shorter == SeqsUpTo(S, n - 1)
         IN  shorter \cup { Append(s, x) : s \in shorter, x \in S }

InitFrame ==
    /\ CycleIdle
    /\ DevIdle
    /\ UpIdle
    /\ sent \in SeqsUpTo(WellFormed, MaxFrames)
    /\ tail \in BadTails
    /\ stream = Concat(sent) \o tail
    /\ rcvBuf = << >>
    /\ rpPc = "len"
    /\ rpBuf = << >>
    /\ lenBuf = << >>
    /\ returned = << >>
    /\ rpErr = ""

\* the network delivers the next k bytes in flight as one segment
PeerDeliver ==
    /\ rpPc \in {"len", "body"}
    /\ stream # << >>
    /\ \E k \in 1..Len(stream) :
         /\ rcvBuf' = rcvBuf \o Take(stream, k)
         /\ stream' = Drop(stream, k)
    /\ UNCHANGED << sent, tail, rpPc, rpBuf, lenBuf, returned, rpErr >>
    /\ UNCHANGED << cycleVars, devVars, upVars >>

\* the length readPacket goes on to read once lenBuf holds the 2-byte field
BodyLenMutant(pktLen) == pktLen
BodyLen(pktLen) == pktLen - 2

\* readPacket's validation of the length field
LengthInvalidMutant(pktLen) == pktLen < 2
LengthInvalid(pktLen) == pktLen < tcpHeaderLength

\* one conn.Read inside io.ReadFull(d.conn, lenBuf), and what follows it
\* when lenBuf is full: the length check and the allocation of pkt
ReadLenStep ==
    /\ rpPc = "len"
    /\ rcvBuf # << >>
    /\ \E k \in 1..Min(2 - Len(rpBuf), Len(rcvBuf)) :
         LET got == rpBuf \o Take(rcvBuf, k) IN
         /\ rcvBuf' = Drop(rcvBuf, k)
         /\ IF Len(got) < 2
            THEN /\ rpBuf' = got
                 /\ UNCHANGED << rpPc, lenBuf, rpErr >>
            ELSE /\ lenBuf' = got
                 /\ rpBuf' = << >>
                 /\ IF LengthInvalid(Uint16(got, 0))
                    THEN rpPc' = "done" /\ rpErr' = "invalidLength"
                    ELSE rpPc' = "body" /\ rpErr' = rpErr
    /\ UNCHANGED << sent, tail, stream, returned >>
    /\ UNCHANGED << cycleVars, devVars, upVars >>

\* one conn.Read inside io.ReadFull(d.conn, pkt[2:]); when pkt is full the
\* call returns it and the next readPacket call starts
ReadBodyStep ==
    /\ rpPc = "body"
    /\ rcvBuf # << >>
    /\ LET need == BodyLen(Uint16(lenBuf, 0)) IN
       \E k \in 1..Min(need - Len(rpBuf), Len(rcvBuf)) :
         LET got == rpBuf \o Take(rcvBuf, k) IN
         /\ rcvBuf' = Drop(rcvBuf, k)
         /\ IF Len(got) < need
            THEN /\ rpBuf' = got
                 /\ UNCHANGED << rpPc, lenBuf, returned >>
            ELSE /\ returned' = Append(returned, lenBuf \o got)
                 /\ rpBuf' = << >>
                 /\ lenBuf' = << >>
                 /\ rpPc' = "len"
    /\ UNCHANGED << sent, tail, stream, rpErr >>
    /\ UNCHANGED << cycleVars, devVars, upVars >>

\* the read deadline passes with nothing left to read
ReadDeadline ==
    /\ rpPc \in {"len", "body"}
    /\ stream = << >>
    /\ rcvBuf = << >>
    /\ rpPc' = "done"
    /\ rpErr' = IF rpPc = "len" /\ rpBuf = << >> THEN "deadline" ELSE "short"
    /\ UNCHANGED << sent, tail, stream, rcvBuf, rpBuf, lenBuf, returned >>
    /\ UNCHANGED << cycleVars, devVars, upVars >>

NextFrame == PeerDeliver \/ ReadLenStep \/ ReadBodyStep \/ ReadDeadline

SpecFrame == InitFrame /\ [][NextFrame]_vars

\* C4: successive readPacket calls return exactly the well-formed frames the
\* peer wrote, whole and in order, whatever the segment boundaries: what has
\* been returned is always a prefix of what was sent, between two calls the
\* unread bytes are exactly the frames not yet returned (no byte of the next
\* frame consumed or dropped), and the calls end only after every frame
\* has been returned.
C4_StreamFraming ==
    /\ Len(returned) <= Len(sent)
    /\ returned = SubSeq(sent, 1, Len(returned))
    /\ (rpPc = "len" /\ rpBuf = << >>) =>
          rcvBuf \o stream =
            Concat(SubSeq(sent, Len(returned) + 1, Len(sent))) \o tail
    /\ rpPc = "done" => returned = sent

\* a second frame is half read, its first bytes came in one segment and the
\* rest is still in flight, after a first frame was returned
C4_Witness ==
    /\ Len(sent) = 2
    /\ Len(returned) = 1
    /\ rpPc = "body"
    /\ rpBuf # << >>
    /\ rcvBuf = << >>
    /\ stream # << >>

\* C5: whenever the 2-byte little-endian length field read by readPacket is
\* below 4, the call fails with the invalid-length error and returns no frame.
C5_InvalidLengthRejected ==
    [][ (lenBuf' # lenBuf /\ Len(lenBuf') = 2
            /\ lenBuf'[1] + 256 * lenBuf'[2] < 4)
        => (rpPc' = "done" /\ rpErr' = "invalidLength" /\ returned' = returned) ]_vars

\* a length field below 4 has been read and rejected
C5_Witness ==
    /\ Len(lenBuf) = 2
    /\ lenBuf[1] + 256 * lenBuf[2] < 4
    /\ rpErr = "invalidLength"
    /\ Len(returned) = 2


(***************************************************************************)
(* Claims about the connection lifecycle: Connect, its handshake, Close    *)
(* and the heartbeat loop.                                                 *)
(***************************************************************************)
\* the phase of the Connect call of caller p: 1 Connecting, 2
\* VersionNegotiating, 3 SdkVersionNegotiating, 4 DeviceInfoQuerying,
\* 5 Ready; 6 when a phase has failed and Connect is about to close; 0 when
\* p is not in Connect
Phase(p) ==
    LET at == IF pc[p] \in {"sendRaw", "writing"} THEN cont[p].ok ELSE pc[p] IN
    CASE op[p] # "connect" -> 0
      [] at = "dial" -> 1
      [] at = "hsVersionRead" -> 2
      [] at = "hsSdkRead" -> 3
      [] at = "hsInfoRead" -> 4
      [] at = "connectReady" -> 5
      [] OTHER -> 6

\* the packet is a version answer handshakeVersion accepts
VersionAnswerOk(data) ==
    Uint16(data, 2) = CmdServiceAnswer /\ parseVersionResponse(data).ok

\* the packets of the two SDK commands of the handshake
IFVersionPackets == buildSdkCmdPackets(buildVersionXML)
IsDeviceInfoPackets(pkts) ==
    \E g \in DeviceGuids \cup {GuidGenerated} :
        pkts = buildSdkCmdPackets(buildSdkXML(g, MethodGetDeviceInfo, << >>))

\* C12: a Connect call goes through its phases in order, each at most once;
\* the first frame written on a socket is the 8-byte version ask; Connect
\* queues GetIFVersion only when it has read a version answer, GetDeviceInfo
\* only when it has read the GetIFVersion response; a heartbeat loop is
\* started only by a Connect that is entering Ready
C12_HandshakeLinear ==
    /\ [][ \A p \in Callers :
             \/ Phase(p)' = Phase(p)
             \/ Phase(p) = 0 /\ Phase(p)' = 1
             \/ Phase(p) \in 1..4 /\ Phase(p)' = Phase(p) + 1
             \/ Phase(p) \in 2..3 /\ Phase(p)' = 6
             \/ Phase(p) = 4 /\ Phase(p)' = 5
             \/ Phase(p) \in {1, 5, 6} /\ Phase(p)' = 0 ]_vars
    /\ [](\A s \in 1..Len(socks) :
             socks[s].wlog # << >> =>
                 /\ Len(socks[s].wlog[1]) = 8
                 /\ socks[s].wlog[1] = buildVersionPacket)
    /\ [][ \A p \in Callers : (op[p] = "connect" /\ wq'[p] # wq[p]) =>
             /\ wq'[p] = IFVersionPackets =>
                  /\ pc[p] = "hsVersionRead" /\ CanRead(p)
                  /\ VersionAnswerOk(NextPacket(p))
             /\ IsDeviceInfoPackets(wq'[p]) =>
                  /\ pc[p] = "hsSdkRead" /\ CanRead(p)
                  /\ sdkStep(rsLoc[p], NextPacket(p)).out.kind = "response" ]_vars
    /\ [][ (nChans' # nChans \/ \E h \in HbIds : pc[h] = "hbNone" /\ pc'[h] # "hbNone") =>
             \E p \in Callers : Phase(p) = 5 /\ Phase(p)' = 0 ]_vars

\* the errors a Connect can return
ConnectErrors == {"dialError", "closed", "writeError", "deadline", "device",
                  "deviceUnknownFormat", "unexpected", "sdkHeader", "badXML"}

\* C13: when the frame Connect reads in phase 1 is not a version answer of at
\* least 8 bytes (an error answer, a short version answer, a frame of another
\* type), the phase fails with nothing more to write, and the Connect whose
\* phase 1 failed returns an error with the socket closed, IsConnected false,
\* no GetIFVersion frame written on the socket and no heartbeat loop started
C13_Phase1FailureClosesSocket ==
    /\ [][ \A p \in Callers :
             ( /\ pc[p] = "hsVersionRead" /\ CanRead(p)
               /\ pc'[p] # pc[p]
               /\ ~( /\ CmdOf(NextPacket(p)) = CmdServiceAnswer
                     /\ Len(NextPacket(p)) >= 8 ) ) =>
                 /\ pc'[p] = "connectFail"
                 /\ wq'[p] = << >>
                 /\ result'[p] \in {"device", "unexpected"} ]_vars
    /\ [][ \A p \in Callers :
             ( /\ pc[p] = "connectFail" /\ cont[p].ok = "hsVersionRead"
               /\ pc'[p] # pc[p] ) =>
                 /\ pc'[p] = "idle" /\ op'[p] = "none"
                 /\ result'[p] \in ConnectErrors
                 /\ conn # 0 /\ conn' = 0
                 /\ ~socks'[conn].open
                 /\ ~IsConnected'
                 /\ \A i \in 1..Len(socks'[conn].wlog) :
                        socks'[conn].wlog[i] \notin
                            { IFVersionPackets[j] : j \in 1..Len(IFVersionPackets) }
                 /\ nChans' = nChans /\ stopHeartbeat' = 0
                 /\ socks'[conn].hb = 0
                 /\ \A h \in HbIds : pc[h] = "hbNone" => pc'[h] = "hbNone" ]_vars

\* a Connect whose version ask was answered with an error answer has
\* returned the device error; the socket it dialled is closed and carries
\* the version ask only
C13_Witness ==
    \E p \in Callers :
        /\ pc[p] = "idle" /\ result[p] = "device" /\ cont[p].ok = "hsVersionRead"
        /\ conn = 0 /\ ~IsConnected
        /\ Len(socks) = 1 /\ ~socks[1].open
        /\ socks[1].wlog = << buildVersionPacket >>
        /\ nChans = 0

\* handshakeDeviceInfo of the Connect of caller p has returned an error
Phase3Failed(p) == pc[p] = "connectReady" /\ result[p] # ""

\* C14: a Connect whose phases 1 and 2 succeeded and whose phase 3 failed
\* returns success with the connection Ready (socket open, live flag set,
\* heartbeat loop started) and with no cached descriptor, whatever an
\* earlier session of the Device had cached
C14_Phase3FailureLeavesNoDescriptor ==
    [][ \A p \in Callers : (Phase3Failed(p) /\ pc'[p] # pc[p]) =>
          /\ result'[p] = "connected"
          /\ IsConnected' /\ conn' # 0 /\ socks'[conn'].open
          /\ socks'[conn'].hb \in HbIds /\ pc'[socks'[conn'].hb] = "hbLoop"
          /\ CachedDeviceInfo'.nil ]_vars

\* no Connect is running and the Device has no connection: the state after
\* NewDevice, after Close and after a Connect that failed
Disconnected == conn = 0 /\ \A p \in Callers : op[p] # "connect"

\* C15: the session GUID is blank while a Connect is in its phases before
\* the GetIFVersion response; once that response is read the GUID does not
\* change as long as the connection is the same; and a Device without a
\* connection (after Close, after a failed Connect) holds no GUID, no cached
\* descriptor, no open socket and is not marked live
C15_NoSessionStateRetained ==
    /\ [](\A p \in Callers : Phase(p) \in 1..3 => GUID = 0)
    /\ [][ (conn # 0 /\ conn' = conn /\ socks[conn].guid # -1) =>
             GUID' = GUID ]_vars
    /\ [](Disconnected =>
             /\ GUID = 0
             /\ CachedDeviceInfo.nil
             /\ ~IsConnected
             /\ \A s \in 1..Len(socks) : ~socks[s].open)

\* the connection in d.conn is Ready: its Connect has returned success
Ready == conn # 0 /\ socks[conn].hb # 0

\* C16: the step of Connect that reads the GetIFVersion response sets the
\* session GUID to the GUID of the response if that is neither empty nor the
\* placeholder, and to a generated identifier otherwise; in every Ready
\* state the session GUID is neither empty nor the placeholder
C16_SessionGuidFromResponse ==
    /\ [][ \A p \in Callers :
             (pc[p] = "hsSdkRead" /\ Phase(p)' = 4) =>
                 LET st == sdkStep(rsLoc[p], NextPacket(p))
                     g == parseSdkResponse(st.out.xmlStr).GUID
                 IN  /\ st.out.kind = "response"
                     /\ (g # 0 /\ g # GuidPlaceholder) => GUID' = g
                     /\ (g = 0 \/ g = GuidPlaceholder) =>
                            /\ GUID' = GuidGenerated
                            /\ GUID' \notin {0, GuidPlaceholder} ]_vars
    /\ [](Ready => GUID \notin {0, GuidPlaceholder})

\* a connection is Ready whose GetIFVersion response echoed the placeholder:
\* the session GUID is the generated identifier
C16_Witness ==
    /\ Ready /\ IsConnected
    /\ socks[conn].guid = GuidPlaceholder
    /\ GUID = GuidGenerated
    /\ pc[socks[conn].hb] = "hbLoop"

\* the XML document an SDK command packet carries
XmlOf(pkt) == Drop(pkt, sdkCmdHeaderLength)

OpenSocks == { s \in 1..Len(socks) : socks[s].open }

HandshakePackets ==
    << buildVersionPacket >> \o IFVersionPackets
        \o buildSdkCmdPackets(buildSdkXML(97, MethodGetDeviceInfo, << >>))

DevReady(ops) ==
    /\ conn = 1 /\ connected = TRUE /\ sdkGUID = 97
    /\ info = parseDeviceInfoXML(<< MethodGetDeviceInfo >>)
    /\ stopHeartbeat = 1 /\ mu = 0 /\ writeMu = 0
    /\ nChans = 1 /\ closedChans = { }
    /\ socks = << [NewSock EXCEPT !.wire = Concat(HandshakePackets),
                                  !.wlog = HandshakePackets,
                                  !.guid = 97,
                                  !.hb = HbOf(1)] >>
    /\ pc = [p \in Procs |-> IF p \in Callers THEN "idle"
                             ELSE IF p = HbOf(1) THEN "hbLoop" ELSE "hbNone"]
    /\ op = [p \in Procs |-> "none"]
    /\ wq = [p \in Procs |-> << >>]
    /\ iosock = [p \in Procs |-> 0]
    /\ cont = [p \in Procs |-> IF p = 1 THEN [ok |-> "hsInfoRead", err |-> "connectReady"]
                               ELSE [ok |-> "", err |-> ""]]
    /\ rsLoc = [p \in Procs |-> RsInit]
    /\ hbch = [p \in Procs |-> 0]
    /\ method = [p \in Procs |-> 0]
    /\ lastResp = [p \in Procs |-> NoResp]
    /\ result = [p \in Procs |-> IF p = 1 THEN "connected" ELSE ""]
    /\ opsLeft = ops /\ ticks = 0

InitReady == FrameIdle /\ CycleIdle /\ DevReady(MaxOps) /\ UpIdle

SpecReady == InitReady /\ [][Next]_vars

\* goroutine p completes the write of a packet in this step
WritesFrame(p) ==
    /\ pc[p] = "writing" /\ pc'[p] # "writing"
    /\ Len(socks'[iosock[p]].wlog) = Len(socks[iosock[p]].wlog) + 1

\* Close has returned for the connection heartbeat loop h was started for
ClosedByClose(h) ==
    \E s \in 1..Len(socks) :
        socks[s].hb = h /\ ~socks[s].open /\ socks[s].closedBy = "Close"

\* C19: once Close has returned for a connection, the heartbeat loop that
\* was started for that connection writes no heartbeat frame, on any socket
C19_NoHeartbeatAfterClose ==
    [][ \A h \in HbIds : ClosedByClose(h) => ~WritesFrame(h) ]_vars

\* C20: every successful Connect starts a heartbeat loop of its own, and a
\* heartbeat loop writes its frames only on the socket of the connection it
\* was started for: on a Ready connection exactly that one loop is at work,
\* and a loop started by an earlier Connect never writes on the socket of a
\* later connection
C20_OneHeartbeatLoopPerConnection ==
    /\ [](\A s \in 1..Len(socks) :
             /\ (s = conn /\ Ready) =>
                    socks[s].hb \in HbIds /\ pc[socks[s].hb] # "hbNone"
             /\ \A t \in 1..Len(socks) :
                    (s # t /\ socks[s].hb # 0) => socks[s].hb # socks[t].hb)
    /\ [][ \A h \in HbIds : WritesFrame(h) => socks[iosock[h]].hb = h ]_vars

(***************************************************************************)
(* The Device under fair scheduling.  The Go scheduler runs every runnable *)
(* goroutine, the ticker of a heartbeat loop fires every interval, a dial, *)
(* a write and a read end at the latest at their deadline: a goroutine     *)
(* that can take a step of the operation it is in eventually takes it.     *)
(* Whether a caller starts another operation is up to the caller.          *)
(***************************************************************************)
HbStep(h) ==
    \/ HbSelect(h) \/ HbStop(h) \/ HbTick(h) \/ HbLock(h) \/ HbCheck(h)
    \/ SendRawBegin(h) \/ SendRawEnd(h, SteadyPeer)

\* the steps of a caller inside Connect or a command, but for the
\* iterations of readSdkResponse
CallerStep(p) ==
    \/ ConnectDialFail(p) \/ ConnectDialOk(p)
    \/ SendRawBegin(p) \/ SendRawEnd(p, SteadyPeer)
    \/ ReadFail(p) \/ HsVersionRead(p)
    \/ ConnectFail(p) \/ ConnectReady(p) \/ CacheInfo(p)

\* an iteration of readSdkResponse, and the condition it is enabled under
SdkRead(p) == HsSdkRead(p) \/ HsInfoRead(p) \/ CmdRead(p)
SdkReadEnabled(p) == pc[p] \in SdkReadPcs /\ CanRead(p)

\* weak fairness of every goroutine; for SdkRead it is written out with
\* SdkReadEnabled(p) for ENABLED << SdkRead(p) >>_vars
Fairness ==
    /\ \A h \in HbIds : WF_vars(HbStep(h))
    /\ \A p \in Callers : WF_vars(CallerStep(p))
    /\ \A p \in Callers : \/ []<>(~SdkReadEnabled(p))
                           \/ []<><< SdkRead(p) >>_vars

SpecReadyFair == InitReady /\ [][Next]_vars /\ Fairness

\* heartbeat loop h waits in its select on a channel nobody will close, the
\* Device is not connected, and the ticks the model allows are used up: the
\* next tick of the real ticker finds d.connected false and ends the loop
EndsAtNextTick(h) ==
    /\ pc[h] = "hbSelect" /\ hbch[h] \notin closedChans
    /\ ~connected /\ ticks = MaxTicks

HbWriteFails(h) ==
    \/ pc[h] = "sendRaw" /\ pc'[h] # "sendRaw" /\ conn = 0
    \/ pc[h] = "writing" /\ pc'[h] # "writing" /\ ~socks[iosock[h]].open

\* the tick of heartbeat loop h finds d.connected false in this step
HbFindsNotLive(h) ==
    pc[h] = "hbCheck" /\ pc'[h] # "hbCheck" /\ ~connected

\* C22: a heartbeat loop whose write fails, or whose tick finds the
\* connection not marked live, returns in that step; a loop that has
\* returned stays so and starts no write again
C22_HeartbeatLoopEndsOnFailure ==
    [][ \A h \in HbIds :
          /\ (HbWriteFails(h) \/ HbFindsNotLive(h)) => pc'[h] = "hbDone"
          /\ pc[h] = "hbDone" => pc'[h] = "hbDone" /\ wq'[h] = << >> ]_vars

C22_Witness ==
    \E h \in HbIds :
        /\ pc[h] = "hbDone" /\ result[h] \in {"closed", "writeError"}
        /\ socks[1].wlog # << >> /\ ~socks[1].open

\* the lifecycle state of the Device and its sockets
lifecycle == << conn, connected, sdkGUID, info, stopHeartbeat, closedChans, socks >>

\* the Device has been closed and no Connect has been called since
Closed == Disconnected /\ ~connected /\ stopHeartbeat = 0

Crashed == \E p \in Procs : pc[p] = "panic"

\* sendRaw: writeMu.Lock() and the d.conn == nil test, passed
SendRawCheck(p) ==
    /\ pc[p] = "sendRaw"
    /\ writeMu = 0
    /\ conn # 0
    /\ writeMu' = writeMuLock(p)
    /\ pc' = [pc EXCEPT ![p] = "sendRawChecked"]
    /\ UNCHANGED << conn, connected, sdkGUID, info, stopHeartbeat, mu, nChans,
                    closedChans, socks, op, wq, iosock, cont, rsLoc, hbch, method,
                    lastResp, result, opsLeft, ticks >>
    /\ UNCHANGED << frameVars, cycleVars, upVars >>

\* sendRaw: d.conn.SetWriteDeadline and the first part of d.conn.Write
SendRawUse(p) ==
    /\ pc[p] = "sendRawChecked"
    /\ IF conn = 0
       THEN /\ pc' = [pc EXCEPT ![p] = "panic"]
            /\ UNCHANGED << iosock, socks >>
       ELSE /\ iosock' = [iosock EXCEPT ![p] = conn]
            /\ socks' = [socks EXCEPT ![conn].wire = @ \o FirstPart(Head(wq[p]))]
            /\ pc' = [pc EXCEPT ![p] = "writing"]
    /\ UNCHANGED << conn, connected, sdkGUID, info, stopHeartbeat, mu, writeMu, nChans,
                    closedChans, op, wq, cont, rsLoc, hbch, method, lastResp, result,
                    opsLeft, ticks >>
    /\ UNCHANGED << frameVars, cycleVars, upVars >>

\* readPacket: d.conn was not nil at the test and is nil at
\* d.conn.SetReadDeadline or io.ReadFull(d.conn, ...)
ReadPanic(p) ==
    /\ pc[p] \in ReadPcs
    /\ iosock[p] # 0
    /\ conn = 0
    /\ pc' = [pc EXCEPT ![p] = "panic"]
    /\ UNCHANGED << conn, connected, sdkGUID, info, stopHeartbeat, mu, writeMu, nChans,
                    closedChans, socks, op, wq, iosock, cont, rsLoc, hbch, method,
                    lastResp, result, opsLeft, ticks >>
    /\ UNCHANGED << frameVars, cycleVars, upVars >>

NextRace ==
    \/ \E p \in Callers : ~Crashed /\ ConnectLock(p)
    \/ \E p \in Callers : ~Crashed /\ ConnectDialFail(p)
    \/ \E p \in Callers : ~Crashed /\ ConnectDialOk(p)
    \/ \E p \in Procs : ~Crashed /\ SendRawBegin(p) /\ conn = 0
    \/ \E p \in Procs : ~Crashed /\ SendRawCheck(p)
    \/ \E p \in Procs : ~Crashed /\ SendRawUse(p)
    \/ \E p \in Procs : ~Crashed /\ SendRawEnd(p, SteadyPeer)
    \/ \E p \in Callers : ~Crashed /\ ReadFail(p)
    \/ \E p \in Callers : ~Crashed /\ ReadPanic(p)
    \/ \E p \in Callers : ~Crashed /\ HsVersionRead(p)
    \/ \E p \in Callers : ~Crashed /\ HsSdkRead(p)
    \/ \E p \in Callers : ~Crashed /\ HsInfoRead(p)
    \/ \E p \in Callers : ~Crashed /\ ConnectFail(p)
    \/ \E p \in Callers : ~Crashed /\ ConnectReady(p)
    \/ \E p \in Callers : ~Crashed /\ Close(p)
    \/ \E p \in Callers : ~Crashed /\ CommandRejected(p)
    \/ \E p \in Callers, m \in Methods : ~Crashed /\ CommandStart(p, m)
    \/ \E p \in Callers : ~Crashed /\ CmdRead(p)
    \/ \E p \in Callers : ~Crashed /\ CacheInfo(p)
    \/ \E h \in HbIds : ~Crashed /\ HbSelect(h)
    \/ \E h \in HbIds : ~Crashed /\ HbStop(h)
    \/ \E h \in HbIds : ~Crashed /\ HbTick(h)
    \/ \E h \in HbIds : ~Crashed /\ HbLock(h)
    \/ \E h \in HbIds : ~Crashed /\ HbCheck(h)

SpecRace == InitReady /\ [][NextRace]_vars

\* the socket goroutine p writes on or reads from was closed by Close
ClosedInFlight(p) ==
    /\ op[p] = "command"
    /\ \/ /\ pc[p] \in {"sendRaw", "sendRawChecked"} /\ conn = 0
          /\ socks[Len(socks)].closedBy = "Close"
       \/ /\ pc[p] \in {"writing"} \cup ReadPcs /\ iosock[p] # 0
          /\ socks[iosock[p]].closedBy = "Close"

\* C24: a command that is between its connectivity check and its last read
\* when Close runs never panics on the nil d.conn, and its next step returns
\* an error, never the response
C24_CloseFailsInFlight ==
    /\ [](\A p \in Callers :
             (op[p] = "command" /\ \E s \in 1..Len(socks) : socks[s].closedBy = "Close")
                 => pc[p] # "panic")
    /\ [][ \A p \in Callers :
             (ClosedInFlight(p) /\ pc'[p] # pc[p]) =>
                 /\ pc'[p] = "idle"
                 /\ result'[p] \in ConnectErrors ]_vars

\* goroutine p reads or writes d.connected, d.conn, d.sdkGUID or d.info in
\* this step
AccessesLifecycle(p) ==
    \/ Close(p) \/ ConnectLock(p) \/ ConnectDialOk(p) \/ ConnectFail(p)
    \/ HsSdkRead(p) \/ HsInfoRead(p) \/ CacheInfo(p) \/ HbCheck(p)
    \/ CommandRejected(p) \/ (\E m \in Methods : CommandStart(p, m))
    \/ SendRawBegin(p) \/ ReadFail(p) \/ CmdRead(p)

\* goroutine p holds d.mu while it takes this step: it held it before, it
\* holds it after, or the step is a Lock, the access and the Unlock in one
HoldsMu(p) == mu = p \/ mu' = p \/ Close(p) \/ CacheInfo(p)

\* C25: every step in which a goroutine reads or writes the live flag, the
\* socket handle, the session GUID or the cached descriptor is taken while
\* that goroutine holds d.mu
C25_LifecycleUnderLock ==
    [][ \A p \in Procs : AccessesLifecycle(p) => HoldsMu(p) ]_vars

(***************************************************************************)
(* The file upload: one call of UploadFileData or UploadFileAs by one      *)
(* goroutine on a connection that another goroutine may close and the peer *)
(* may break at any time.  The peer answers a frame when it is written;    *)
(* its answers wait until a readPacket takes them.  Frames are exchanged   *)
(* whole (the framing of the stream is the subject of SpecFrame).          *)
(***************************************************************************)
CmdFileStartAsk == 32769
CmdFileStartAnswer == 32770
CmdFileContentAsk == 32771
CmdFileContentAnswer == 32772
CmdFileEndAsk == 32773
ErrSuccess == 0
ErrWriteFinish == 1
ErrProcessError == 2
FileTypeImage == 0

\* file sizes reach MaxFileChunks full content frames and one byte more
MaxFileChunks == 2
\* how often file.Read returns less than it could during one upload
MaxShortReads == 1

\* the file-content answers and the heartbeat answers the peer sends during
\* one upload
MaxAcks == 1
MaxHbAnswers == 1

\* hex.EncodeToString(hasher.Sum(nil)): 32 hexadecimal digits that depend on
\* the content (the digits here stand for the digest, they are not MD5)
md5Hex(data) ==
    LET n == Len(data)
        last == IF n = 0 THEN 0 ELSE data[n]
    IN  [i \in 1..32 |-> 48 + ((n + i * last) % 10)]

buildFileStartPacket(name, fileSize, fileType, md5Hash) ==
    LET headLen == 47
        pktLen == headLen + Len(name) + 1
    IN  PutUint16(pktLen) \o PutUint16(CmdFileStartAsk)
          \o Take(md5Hash \o Fill(0, 32), 32) \o << 0 >>
          \o PutUint32(fileSize) \o << 0, 0, 0, 0 >>
          \o PutUint16(fileType) \o name \o << 0 >>

buildFileContentPacket(data) ==
    PutUint16(tcpHeaderLength + Len(data)) \o PutUint16(CmdFileContentAsk) \o data

buildFileEndPacket == PutUint16(4) \o PutUint16(CmdFileEndAsk)

parseFileStartResponse(data) ==
    IF Len(data) < 10 THEN [ok |-> FALSE, errCode |-> 0, existBytes |-> 0]
    ELSE [ok |-> TRUE, errCode |-> Uint16(data, 4), existBytes |-> Uint32(data, 6)]

parseFileEndResponse(data) ==
    IF Len(data) < 6 THEN [ok |-> FALSE, errCode |-> 0]
    ELSE [ok |-> TRUE, errCode |-> Uint16(data, 4)]

\* the end phase's test of the result code
endCodeOkMutant(code) == code = ErrSuccess
endCodeOk(code) == ~(code # ErrSuccess /\ code # ErrWriteFinish)

\* UploadFileData: end := offset + MaxContentLength, cut at len(fileData)
chunkEndMutant(off, size) == size
chunkEnd(off, size) ==
    IF off + MaxContentLength > size THEN size ELSE off + MaxContentLength

\* offset := int(existBytes); UploadFileAs seeks to existBytes if it is > 0
resumeOffsetMutant(exist) == 0
resumeOffset(exist) == exist

\* the frames of the peer
FileStartAnswer(code, exist) ==
    MkFrame(CmdFileStartAnswer, PutUint16(code) \o PutUint32(exist))
FileEndAnswer(code) == MkFrame(CmdFileEndAnswer, PutUint16(code))

FileSizes ==
    { 0, 1, 20000 } \cup
    { k * MaxContentLength + d : k \in 1..MaxFileChunks, d \in {-1, 0, 1} }

\* the existing-bytes counts the peer reports for a file of the given size
ExistChoices(size) ==
    { k \in { 0, 1, MaxContentLength, MaxContentLength + 1, size - 1, size, size + 1 } :
        k >= 0 }

EndCodes == { ErrSuccess, ErrWriteFinish, ErrProcessError, 256, 257 }

\* the frames of one command type the peer has sent to the upload so far
UpReceived(cmd) == Len(SelectSeq(upIn \o upRead, LAMBDA f : Uint16(f, 2) = cmd))

\* a file-content answer, which the peer may send for a content chunk
FileContentAnswer == MkFrame(CmdFileContentAnswer, PutUint16(ErrSuccess))

\* what the peer may send when the frame pkt of an upload of a file of the
\* given size has been written; << >> for nothing
FileAnswers(pkt, size) ==
    CASE Uint16(pkt, 2) = CmdFileStartAsk ->
           { FileStartAnswer(ErrSuccess, k) : k \in ExistChoices(size) }
             \cup { FileStartAnswer(ErrProcessError, 0),
                    MkFrame(CmdFileStartAnswer, PutUint16(ErrSuccess)),
                    MkFrame(CmdErrorAnswer, PutUint16(ErrProcessError)),
                    FileEndAnswer(ErrSuccess),
                    << >> }
      [] Uint16(pkt, 2) = CmdFileEndAsk ->
           { FileEndAnswer(c) : c \in EndCodes }
             \cup { MkFrame(CmdFileEndAnswer, << >>),
                    FileStartAnswer(ErrSuccess, 0),
                    << >> }
      [] Uint16(pkt, 2) = CmdFileContentAsk ->
           IF UpReceived(CmdFileContentAnswer) < MaxAcks
           THEN { FileContentAnswer, << >> }
           ELSE { << >> }
      [] OTHER -> { << >> }

InitUpload ==
    /\ FrameIdle /\ CycleIdle /\ DevIdle
    /\ upMode \in {"data", "file"}
    /\ fileName = << 97, 46, 106 >>
    /\ \E n \in FileSizes : fileData = Payload(n, "plain")
    /\ live \in {"ready", "closed"}
    /\ upPc = "call" /\ existBytes = 0 /\ upOffset = 0
    /\ shortReads = IF upMode = "file" THEN MaxShortReads ELSE 0
    /\ progress = << >> /\ upOut = << >> /\ upIn = << >> /\ upRead = << >>
    /\ upErr = ""

\* the upload returns err
UpReturn(err) ==
    /\ upErr' = err
    /\ upPc' = "done"

UpSendRawMutant(pkt, okPc) ==
    IF live # "ready"
    THEN /\ upPc' = okPc
         /\ UNCHANGED << upOut, upIn, upErr >>
    ELSE /\ upOut' = Append(upOut, pkt)
         /\ \E ans \in FileAnswers(pkt, Len(fileData)) :
               upIn' = IF ans = << >> THEN upIn ELSE Append(upIn, ans)
         /\ upPc' = okPc
         /\ UNCHANGED upErr

\* sendRaw(pkt): on success the upload goes on at okPc
UpSendRaw(pkt, okPc) ==
    IF live # "ready"
    THEN /\ UpReturn(IF live = "closed" THEN "closed" ELSE "writeError")
         /\ UNCHANGED << upOut, upIn >>
    ELSE /\ upOut' = Append(upOut, pkt)
         /\ \E ans \in FileAnswers(pkt, Len(fileData)) :
               upIn' = IF ans = << >> THEN upIn ELSE Append(upIn, ans)
         /\ upPc' = okPc
         /\ UNCHANGED upErr

\* readPacket fails: d.conn is nil, the socket is broken, or the deadline
\* passes with nothing to read
UpReadError ==
    CASE live = "closed" -> "closed"
      [] live = "broken" -> "readError"
      [] upIn = << >> -> "deadline"
      [] OTHER -> ""

\* ensureConnected, d.connected and d.conn being set until Close is called
UpCall ==
    /\ upPc = "call"
    /\ IF live = "closed" THEN UpReturn("notConnected")
       ELSE upPc' = "sendStart" /\ UNCHANGED upErr
    /\ UNCHANGED << upMode, fileName, fileData, live, existBytes, upOffset, shortReads,
                    progress, upOut, upIn, upRead >>
    /\ UNCHANGED << frameVars, cycleVars, devVars >>

\* phase 1: sendRaw(buildFileStartPacket(...))
UpSendStart ==
    /\ upPc = "sendStart"
    /\ UpSendRaw(buildFileStartPacket(fileName, Len(fileData), FileTypeImage,
                                      md5Hex(fileData)), "readStart")
    /\ UNCHANGED << upMode, fileName, fileData, live, existBytes, upOffset, shortReads,
                    progress, upRead >>
    /\ UNCHANGED << frameVars, cycleVars, devVars >>

startCodeOkMutant(code) == TRUE

\* errCode != ErrSuccess makes the upload return the file-start error
startCodeOk(code) == code = ErrSuccess

\* phase 1: readPacket and the tests of the file-start answer
UpReadStart ==
    /\ upPc = "readStart"
    /\ IF UpReadError # ""
       THEN /\ UpReturn(UpReadError)
            /\ UNCHANGED << upIn, upRead, existBytes, upOffset >>
       ELSE LET data == Head(upIn)
                r == parseFileStartResponse(data)
            IN  /\ upIn' = Tail(upIn)
                /\ upRead' = Append(upRead, data)
                /\ CASE Uint16(data, 2) # CmdFileStartAnswer ->
                          UpReturn("unexpected") /\ UNCHANGED << existBytes, upOffset >>
                     [] ~r.ok ->
                          UpReturn("startParse") /\ UNCHANGED << existBytes, upOffset >>
                     [] ~startCodeOk(r.errCode) ->
                          UpReturn("startError") /\ UNCHANGED << existBytes, upOffset >>
                     [] OTHER ->
                          /\ existBytes' = r.existBytes
                          /\ upOffset' = resumeOffset(r.existBytes)
                          /\ upPc' = "content"
                          /\ UNCHANGED upErr
    /\ UNCHANGED << upMode, fileName, fileData, live, shortReads, progress, upOut >>
    /\ UNCHANGED << frameVars, cycleVars, devVars >>

sentBytesMutant(off, end) == end - off

\* the SentBytes of the progress callback after the chunk [off, end) is
\* written: int64(offset) with offset = end; sentBytes += int64(n)
sentBytes(off, end) == off + (end - off)

\* phase 2: one iteration of the content loop.  UploadFileData takes
\* fileData[offset:end]; UploadFileAs takes what file.Read put into its
\* buffer of MaxContentLength bytes, which can be less than is left
UpContent ==
    /\ upPc = "content"
    /\ upOffset < Len(fileData)
    /\ \E short \in IF upMode = "file" /\ shortReads > 0 THEN {FALSE, TRUE} ELSE {FALSE} :
         LET full == chunkEnd(upOffset, Len(fileData))
             end == IF short THEN upOffset + (full - upOffset + 1) \div 2 ELSE full
         IN  /\ shortReads' = IF short THEN shortReads - 1 ELSE shortReads
             /\ UpSendRaw(buildFileContentPacket(SubSeq(fileData, upOffset + 1, end)),
                          "content")
             /\ IF live = "ready"
                THEN upOffset' = end /\ progress' = Append(progress, sentBytes(upOffset, end))
                ELSE UNCHANGED << upOffset, progress >>
    /\ UNCHANGED << upMode, fileName, fileData, live, existBytes, upRead >>
    /\ UNCHANGED << frameVars, cycleVars, devVars >>

\* phase 3: the loop is over; sendRaw(buildFileEndPacket())
UpSendEnd ==
    /\ upPc = "content"
    /\ ~(upOffset < Len(fileData))
    /\ UpSendRaw(buildFileEndPacket, "readEnd")
    /\ UNCHANGED << upMode, fileName, fileData, live, existBytes, upOffset, shortReads,
                    progress, upRead >>
    /\ UNCHANGED << frameVars, cycleVars, devVars >>

\* a variant of the end read that skips file-content answers instead of
\* judging them
UpReadEndMutant ==
    /\ upPc = "readEnd"
    /\ IF UpReadError # ""
       THEN /\ UpReturn(UpReadError)
            /\ UNCHANGED << upIn, upRead >>
       ELSE LET data == Head(upIn)
                r == parseFileEndResponse(data)
            IN  /\ upIn' = Tail(upIn)
                /\ upRead' = Append(upRead, data)
                /\ CASE Uint16(data, 2) = CmdFileContentAnswer ->
                            UNCHANGED << upPc, upErr >>
                     [] Uint16(data, 2) # CmdFileEndAnswer -> UpReturn("unexpected")
                     [] ~r.ok -> UpReturn("endParse")
                     [] ~endCodeOk(r.errCode) -> UpReturn("endError")
                     [] OTHER -> UpReturn("nil")
    /\ UNCHANGED << upMode, fileName, fileData, live, existBytes, upOffset, shortReads,
                    progress, upOut >>
    /\ UNCHANGED << frameVars, cycleVars, devVars >>

\* phase 3: readPacket and the tests of the file-end answer
UpReadEnd ==
    /\ upPc = "readEnd"
    /\ IF UpReadError # ""
       THEN /\ UpReturn(UpReadError)
            /\ UNCHANGED << upIn, upRead >>
       ELSE LET data == Head(upIn)
                r == parseFileEndResponse(data)
            IN  /\ upIn' = Tail(upIn)
                /\ upRead' = Append(upRead, data)
                /\ CASE Uint16(data, 2) # CmdFileEndAnswer -> UpReturn("unexpected")
                     [] ~r.ok -> UpReturn("endParse")
                     [] ~endCodeOk(r.errCode) -> UpReturn("endError")
                     [] OTHER -> UpReturn("nil")
    /\ UNCHANGED << upMode, fileName, fileData, live, existBytes, upOffset, shortReads,
                    progress, upOut >>
    /\ UNCHANGED << frameVars, cycleVars, devVars >>

\* another goroutine calls Close while the upload runs
UpClose ==
    /\ upPc \notin {"idle", "call", "done"}
    /\ live # "closed"
    /\ live' = "closed"
    /\ UNCHANGED << upMode, fileName, fileData, upPc, existBytes, upOffset, shortReads,
                    progress, upOut, upIn, upRead, upErr >>
    /\ UNCHANGED << frameVars, cycleVars, devVars >>

\* the peer or the network breaks the connection while the upload runs
UpBreak ==
    /\ upPc \notin {"idle", "call", "done"}
    /\ live = "ready"
    /\ live' = "broken"
    /\ UNCHANGED << upMode, fileName, fileData, upPc, existBytes, upOffset, shortReads,
                    progress, upOut, upIn, upRead, upErr >>
    /\ UNCHANGED << frameVars, cycleVars, devVars >>

\* the heartbeat loop of the connection writes a heartbeat frame while the
\* upload runs, and the peer answers it
UpHeartbeat ==
    /\ upPc \in {"sendStart", "readStart", "content", "readEnd"}
    /\ live = "ready"
    /\ UpReceived(CmdHeartbeatAnswer) < MaxHbAnswers
    /\ upIn' = Append(upIn, MkFrame(CmdHeartbeatAnswer, << >>))
    /\ UNCHANGED << upMode, fileName, fileData, live, upPc, existBytes, upOffset,
                    shortReads, progress, upOut, upRead, upErr >>
    /\ UNCHANGED << frameVars, cycleVars, devVars >>

NextUpload ==
    \/ UpCall \/ UpSendStart \/ UpReadStart \/ UpContent \/ UpSendEnd \/ UpReadEnd
    \/ UpClose \/ UpBreak \/ UpHeartbeat

SpecUpload == InitUpload /\ [][NextUpload]_vars

(***************************************************************************)
(* Claims about the file upload.                                           *)
(***************************************************************************)
\* the frames of one command type among the frames written so far
UpFrames(cmd) == SelectSeq(upOut, LAMBDA f : Uint16(f, 2) = cmd)

\* the payloads of the content frames written so far, one after the other
ContentBytes ==
    LET fs == UpFrames(CmdFileContentAsk)
    IN  Concat([i \in 1..Len(fs) |-> Drop(fs[i], tcpHeaderLength)])

\* the upload has read a file-start answer that passed all three tests
StartAccepted ==
    /\ upRead # << >>
    /\ Uint16(upRead[1], 2) = CmdFileStartAnswer
    /\ parseFileStartResponse(upRead[1]).ok
    /\ parseFileStartResponse(upRead[1]).errCode = ErrSuccess

\* K, the existing bytes the accepted file-start answer reported
StartK == parseFileStartResponse(upRead[1]).existBytes

\* C26: after a file-start answer with the success code and K existing
\* bytes, the content frames written so far carry, in order, the bytes of
\* the content from position K up to the position the upload has reached,
\* and when the file-end frame is written they carry exactly the bytes
\* [K, S), S being the declared size (nothing if K >= S)
C26_ResumeCoversRest ==
    StartAccepted =>
        /\ ContentBytes = SubSeq(fileData, StartK + 1, upOffset)
        /\ UpFrames(CmdFileEndAsk) # << >> =>
               ContentBytes = SubSeq(fileData, StartK + 1, Len(fileData))

C26_Witness ==
    /\ StartAccepted /\ StartK = 1 /\ upErr = "nil"
    /\ Len(fileData) = 2 * MaxContentLength + 1
    /\ Len(UpFrames(CmdFileContentAsk)) = 2


\* ---------------------------------------------------------------------------
\* C27: the resume offset an upload works with satisfies
\* 0 <= resume offset <= declared size: an upload is never in the content
\* phase or the end phase with an existing-bytes value greater than the size
\* of the file it declared in its file-start frame.
Transferring == upPc = "content"

Ending == upPc = "readEnd" \/ (upPc = "done" /\ UpFrames(CmdFileEndAsk) # << >>)

C27_ResumeOffsetWithinSize ==
    (Transferring \/ Ending) => 0 <= existBytes /\ existBytes <= Len(fileData)


\* ---------------------------------------------------------------------------
\* C28: for an in-memory upload with R = S - K remaining bytes, UploadFileData
\* writes exactly ceil(R / 8000) content frames in ascending byte order, every
\* frame but the last carrying exactly 8000 bytes and the last carrying the
\* remainder (20000 bytes with K = 0 gives frames of 8000, 8000, 4000).
\* While the transfer runs, the i-th content frame carries the bytes from
\* K + (i - 1) * 8000 on, 8000 of them or all that is left; once the file-end
\* frame is written the number of content frames is ceil(R / 8000).
Remaining == IF StartK > Len(fileData) THEN 0 ELSE Len(fileData) - StartK

CeilDiv(a, b) == (a + b - 1) \div b

ContentSizes ==
    LET fs == UpFrames(CmdFileContentAsk)
    IN  [i \in 1..Len(fs) |-> Len(fs[i]) - tcpHeaderLength]

C28_InMemoryChunking ==
    (upMode = "data" /\ StartAccepted) =>
        LET fs == UpFrames(CmdFileContentAsk)
            n == CeilDiv(Remaining, MaxContentLength)
        IN  /\ Len(fs) <= n
            /\ \A i \in 1..Len(fs) :
                 LET from == StartK + (i - 1) * MaxContentLength
                     size == IF i < n THEN MaxContentLength
                             ELSE Remaining - (n - 1) * MaxContentLength
                 IN  /\ Len(fs[i]) = tcpHeaderLength + size
                     /\ Drop(fs[i], tcpHeaderLength) = SubSeq(fileData, from + 1, from + size)
            /\ UpFrames(CmdFileEndAsk) # << >> => Len(fs) = n

C28_Witness ==
    /\ upMode = "data" /\ StartAccepted /\ StartK = 0 /\ upErr = "nil"
    /\ Len(fileData) = 20000
    /\ ContentSizes = << 8000, 8000, 4000 >>


\* ---------------------------------------------------------------------------
\* C29: at the end phase an upload succeeds exactly when the file-end answer's
\* result code is the plain-success code (0) or the write-finish code (1);
\* every other result code makes the upload return an error.  An upload
\* returns nil only after it has read such an answer.
EndAnswerRead ==
    /\ upPc = "done" /\ Len(upRead) = 2
    /\ UpFrames(CmdFileEndAsk) # << >>
    /\ Uint16(upRead[2], 2) = CmdFileEndAnswer
    /\ parseFileEndResponse(upRead[2]).ok

EndCode == parseFileEndResponse(upRead[2]).errCode

C29_EndCodeDecidesSuccess ==
    /\ EndAnswerRead =>
         /\ upErr = "nil" <=> EndCode \in {ErrSuccess, ErrWriteFinish}
         /\ upErr # "nil" => upErr = "endError"
    /\ upErr = "nil" => EndAnswerRead

C29_Witness ==
    /\ EndAnswerRead /\ EndCode = ErrWriteFinish /\ upErr = "nil"
    /\ upMode = "file" /\ Len(fileData) = 1


\* ---------------------------------------------------------------------------
\* C30: an upload is a three-phase sequence.  The first frame it writes is the
\* one file-start frame; content frames are written only after a file-start
\* answer with the success code has been read; the one file-end frame follows
\* the last content frame and is written by every upload that gets through
\* the content phase; an upload whose start answer has a non-success code, a
\* different command type or no result code returns an error having written
\* no content frame and no file-end frame.
UpCmd(i) == Uint16(upOut[i], 2)

StartRejected == upRead # << >> /\ ~StartAccepted

C30_ThreePhases ==
    /\ \A i \in 1..Len(upOut) :
         /\ UpCmd(i) \in {CmdFileStartAsk, CmdFileContentAsk, CmdFileEndAsk}
         /\ UpCmd(i) = CmdFileStartAsk <=> i = 1
         /\ UpCmd(i) = CmdFileEndAsk => i = Len(upOut)
    /\ upOut # << >> =>
         upOut[1] = buildFileStartPacket(fileName, Len(fileData), FileTypeImage,
                                         md5Hex(fileData))
    /\ Len(upOut) > 1 => StartAccepted
    /\ Ending <=> UpFrames(CmdFileEndAsk) # << >>
    /\ upErr = "nil" => UpCmd(Len(upOut)) = CmdFileEndAsk
    /\ StartRejected =>
         /\ upPc = "done" /\ upErr \in {"unexpected", "startParse", "startError"}
         /\ Len(upOut) = 1

C30_Witness ==
    /\ upErr = "nil" /\ StartAccepted /\ StartK = 0
    /\ Len(fileData) = MaxContentLength + 1
    /\ Len(upOut) = 4
    /\ UpCmd(2) = CmdFileContentAsk /\ UpCmd(3) = CmdFileContentAsk


\* ---------------------------------------------------------------------------
\* C31: if a socket write or read fails at any phase of an upload, the upload
\* returns that error in the same step and writes no further frame (no
\* file-end frame after a failed content write); nothing is sent to undo the
\* bytes already written: the frames written only ever grow by one frame, and
\* not at all once the upload has returned.
IOErrors == {"closed", "writeError", "readError", "deadline"}

\* the upload takes a step (not Close, not a break of the connection)
UploadStep == upPc' # upPc \/ upOut' # upOut \/ upOffset' # upOffset

\* the step is a sendRaw on a connection that is closed or broken
UpWriteFails == upPc \in {"sendStart", "content"} /\ live # "ready" /\ UploadStep

\* the step is a readPacket that returns an error
UpReadFails == upPc \in {"readStart", "readEnd"} /\ UpReadError # "" /\ UploadStep

C31_IOFailureAbortsUpload ==
    [][ /\ UpWriteFails =>
             upPc' = "done" /\ upErr' \in {"closed", "writeError"} /\ upOut' = upOut
        /\ UpReadFails =>
             upPc' = "done" /\ upErr' = UpReadError /\ upOut' = upOut
        /\ upPc = "done" => upOut' = upOut /\ upPc' = "done" /\ upErr' = upErr
        /\ upOut' = upOut \/ \E f \in {upOut'[Len(upOut')]} : upOut' = Append(upOut, f) ]_vars

C31_Witness ==
    /\ upPc = "done" /\ upErr = "writeError"
    /\ Len(upOut) = 2 /\ UpCmd(2) = CmdFileContentAsk
    /\ Len(fileData) = 2 * MaxContentLength


\* ---------------------------------------------------------------------------
\* C32: the progress callback is invoked exactly once after each content
\* frame is written, with the cumulative bytes sent: the i-th invocation
\* reports the resume offset plus the bytes of the first i content frames;
\* the reported SentBytes are strictly increasing and never exceed
\* TotalBytes, and the last invocation of a completed upload reports
\* SentBytes equal to TotalBytes.
TotalBytes == Len(fileData)

RECURSIVE SumTo(_, _)
SumTo(sizes, i) == IF i = 0 THEN 0 ELSE SumTo(sizes, i - 1) + sizes[i]

C32_ProgressCumulative ==
    /\ Len(progress) = Len(UpFrames(CmdFileContentAsk))
    /\ \A i \in 1..Len(progress) :
         /\ progress[i] = existBytes + SumTo(ContentSizes, i)
         /\ progress[i] <= TotalBytes
         /\ i > 1 => progress[i - 1] < progress[i]
    /\ (upErr = "nil" /\ progress # << >>) => progress[Len(progress)] = TotalBytes

C32_Witness ==
    /\ upErr = "nil" /\ upMode = "file" /\ existBytes = 1
    /\ TotalBytes = MaxContentLength + 1
    /\ Len(progress) = 2 /\ progress[1] < MaxContentLength
    /\ progress[2] = TotalBytes


\* ---------------------------------------------------------------------------
\* C33: a heartbeat-answer frame that arrives while an upload is waiting for
\* its file-start answer or its file-end answer is filtered out, and the
\* upload goes on to read the real answer instead of failing: an upload never
\* returns the unexpected-command error on a heartbeat answer.
FailedOnHeartbeatAnswer ==
    /\ upPc = "done" /\ upErr = "unexpected"
    /\ upRead # << >>
    /\ Uint16(upRead[Len(upRead)], 2) = CmdHeartbeatAnswer

C33_HeartbeatAnswerFiltered == ~FailedOnHeartbeatAnswer


(***************************************************************************)
(* Commands on a Ready connection whose peer breaks the protocol, with the *)
(* heartbeat loop of the connection at work.                               *)
(***************************************************************************)
\* readPacket: pktLen < tcpHeaderLength, "geçersiz paket uzunluğu"
ReadInvalidLength(p) ==
    /\ pc[p] \in ReadPcs
    /\ CanRead(p)
    /\ Len(NextPacket(p)) < tcpHeaderLength
    /\ socks' = [socks EXCEPT ![iosock[p]].inbox = Tail(@)]
    /\ Leave(p, "invalidLength")
    /\ UNCHANGED << conn, connected, sdkGUID, info, stopHeartbeat, mu, writeMu, nChans,
                    closedChans, cont, hbch, method, lastResp, opsLeft, ticks >>
    /\ UNCHANGED << frameVars, cycleVars, upVars >>

\* readPacket returned a packet
ReadsPacket(p) == CanRead(p) /\ Len(NextPacket(p)) >= tcpHeaderLength

NextProto ==
    \/ \E m \in Methods : CommandStart(1, m)
    \/ \E p \in Procs : SendRawBegin(p)
    \/ \E p \in Procs : SendRawEnd(p, GarblingPeer)
    \/ ReadFail(1)
    \/ ReadInvalidLength(1)
    \/ ReadsPacket(1) /\ CmdRead(1)
    \/ CacheInfo(1)
    \/ \E h \in HbIds : HbSelect(h)
    \/ \E h \in HbIds : HbTick(h)
    \/ \E h \in HbIds : HbLock(h)
    \/ \E h \in HbIds : HbCheck(h)

SpecProto == InitReady /\ [][NextProto]_vars

\* ---------------------------------------------------------------------------
\* C34: when a command fails with a protocol error (a frame with a malformed
\* length, an SDK answer without its header, a frame of an unexpected command
\* type), the connection state is unchanged: socket handle, live flag,
\* session GUID, cached descriptor and the running heartbeat loop are as
\* before the call returned, and the socket is still open.  The same holds
\* when the offset of a fragment overruns the buffer and readSdkResponse
\* panics.
ProtocolErrors == {"invalidLength", "sdkHeader", "unexpected"}

\* the command of goroutine p returns in this step with an error of the set
FailsWith(p, errs) ==
    /\ op[p] = "command" /\ pc[p] = "cmdRead"
    /\ pc'[p] = "idle" /\ result'[p] \in errs

RawXML(p) == buildSdkXML(sdkGUID, MethodGetTimeInfo, Fill(100 + p, MaxContentLength - 1))

\* SendRawXML: ensureConnected, then sendSdkCmdAndReceive(xmlStr)
SendRawXML(p) ==
    /\ p \in Callers /\ pc[p] = "idle" /\ opsLeft > 0
    /\ ensureConnected
    /\ opsLeft' = opsLeft - 1
    /\ op' = [op EXCEPT ![p] = "command"]
    /\ method' = [method EXCEPT ![p] = MethodGetTimeInfo]
    /\ lastResp' = [lastResp EXCEPT ![p] = NoResp]
    /\ result' = [result EXCEPT ![p] = ""]
    /\ StartSend(p, buildSdkCmdPackets(RawXML(p)), "cmdRead", "idle")
    /\ UNCHANGED << conn, connected, sdkGUID, info, stopHeartbeat, mu, writeMu, nChans,
                    closedChans, socks, iosock, rsLoc, hbch, ticks >>
    /\ UNCHANGED << frameVars, cycleVars, upVars >>

NextFrag ==
    \/ \E p \in Callers : SendRawXML(p)
    \/ \E p \in Procs : SendRawBegin(p)
    \/ \E p \in Procs : SendRawEnd(p, SteadyPeer)
    \/ \E p \in Callers : ReadFail(p)
    \/ \E p \in Callers : CmdRead(p)
    \/ \E h \in HbIds : HbSelect(h)
    \/ \E h \in HbIds : HbTick(h)
    \/ \E h \in HbIds : HbLock(h)
    \/ \E h \in HbIds : HbCheck(h)

SpecFrag == InitReady /\ [][NextFrag]_vars

\* ---------------------------------------------------------------------------
\* C35: the fragments of one XML request are written in strict
\* ascending-offset order by one goroutine, and while they are being written
\* no fragment of a different XML body is written between them (only whole
\* heartbeat frames may be interleaved).
\* goroutine p has written a fragment of its request and has more to write
MidSequence(p) ==
    /\ pc[p] \in {"sendRaw", "writing"} /\ wq[p] # << >>
    /\ Uint16(Head(wq[p]), 2) = CmdSdkCmdAsk
    /\ parseSdkCmdHeader(Head(wq[p])).xmlOffset > 0

\* the fragment goroutine p writes next follows the one it writes in this step
NextFragmentFollows(p) ==
    LET pkt == Head(wq[p])
        h == parseSdkCmdHeader(pkt)
    IN  wq'[p] # << >> =>
            parseSdkCmdHeader(Head(wq'[p])).xmlOffset
                = h.xmlOffset + (Len(pkt) - sdkCmdHeaderLength)

C35_FragmentsNotInterleaved ==
    [][ \A p \in Callers :
          /\ WritesFrame(p) => NextFragmentFollows(p)
          /\ MidSequence(p) => \A q \in Callers \ {p} : ~WritesFrame(q) ]_vars


(***************************************************************************)
(* Uploads under file names of every length UploadFileData accepts: the    *)
(* name is a Go string the function puts into the file-start frame as it   *)
(* is.                                                                     *)
(***************************************************************************)
\* const headLen = 47 of buildFileStartPacket
fileStartHeadLen == 47

\* the shortest name with headLen + len(name) + 1 beyond the range of uint16
WrapNameLen == 65536 - fileStartHeadLen - 1

NameLens == { 1, 255, WrapNameLen - 1, WrapNameLen }

InitBuild ==
    /\ FrameIdle /\ CycleIdle /\ DevIdle
    /\ upMode = "data"
    /\ \E n \in NameLens : fileName = Fill(97, n)
    /\ \E n \in { 0, 1, MaxContentLength + 1 } : fileData = Payload(n, "plain")
    /\ live = "ready"
    /\ upPc = "call" /\ existBytes = 0 /\ upOffset = 0
    /\ shortReads = 0
    /\ progress = << >> /\ upOut = << >> /\ upIn = << >> /\ upRead = << >>
    /\ upErr = ""

SpecBuild == InitBuild /\ [][NextUpload]_vars

\* ---------------------------------------------------------------------------
\* C36: the 2-byte length field of every frame the client builds equals the
\* frame's actual byte count and is at least the minimum header size of its
\* command family (4 generic, 8 version ask, 12 SDK fragment, 47 file
\* start), and the 4-byte size field of a file-start frame equals the
\* declared file size, for every file name length and file size the API
\* accepts.
MinHeader(cmd) ==
    CASE cmd = CmdFileStartAsk -> fileStartHeadLen
      [] cmd = CmdSdkCmdAsk -> sdkCmdHeaderLength
      [] cmd = CmdServiceAsk -> 8
      [] OTHER -> tcpHeaderLength

LengthFieldExact(f) ==
    /\ Uint16(f, 0) = Len(f)
    /\ Uint16(f, 0) >= MinHeader(Uint16(f, 2))

C36_LengthFieldsExact ==
    /\ \A i \in 1..Len(upOut) :
         /\ LengthFieldExact(upOut[i])
         /\ UpCmd(i) = CmdFileStartAsk => Uint32(upOut[i], 37) = Len(fileData)
    /\ LengthFieldExact(buildVersionPacket)
    /\ LengthFieldExact(buildHeartbeat)
    /\ \A i \in 1..Len(buildSdkCmdPackets(fileData)) :
         LengthFieldExact(buildSdkCmdPackets(fileData)[i])


\* ---------------------------------------------------------------------------
\* C37: no caller-issued command writes a frame on a connection before that
\* connection has reached Ready: while a Connect is in its handshake phases,
\* a command invoked from another goroutine is blocked or rejected as not
\* connected; it is not started, writes no frame on the socket of the
\* handshake and reads no frame from it.
\* a Connect is between its dial and the start of the heartbeat loop
InHandshake == \E q \in Callers : Phase(q) \in 2..5

\* goroutine p takes a packet from its socket in this step
ReadsFrame(p) ==
    /\ pc[p] \in ReadPcs /\ CanRead(p)
    /\ socks'[iosock[p]].inbox = Tail(socks[iosock[p]].inbox)

C37_NoCommandBeforeReady ==
    [][ \A p \in Callers :
          /\ (op[p] # "command" /\ op'[p] = "command") => ~InHandshake
          /\ (op[p] = "command" /\ WritesFrame(p)) => socks[iosock[p]].hb # 0
          /\ (op[p] = "command" /\ ReadsFrame(p)) => socks[iosock[p]].hb # 0 ]_vars


\* ---------------------------------------------------------------------------
\* C38: the live flag and the socket handle stay consistent and change only
\* through Connect and Close: whenever the lifecycle lock is free,
\* IsConnected is true exactly when a socket handle is present; and neither a
\* failed command, a read timeout nor a failed heartbeat write changes
\* IsConnected or the socket handle.
\* goroutine p leaves a send or a read with an error in this step, outside
\* Connect
FailsOutsideConnect(p) ==
    /\ op[p] # "connect"
    /\ pc[p] \in ReadPcs \cup {"sendRaw", "writing"}
    /\ pc'[p] \in {"idle", "hbDone"}
    /\ result'[p] \in ConnectErrors

ContentAnswerJudged ==
    /\ upPc = "done" /\ Len(upRead) >= 2
    /\ Uint16(upRead[2], 2) = CmdFileContentAnswer

AllBytesDelivered ==
    /\ UpFrames(CmdFileEndAsk) # << >>
    /\ ContentBytes = SubSeq(fileData, StartK + 1, Len(fileData))

C39_ContentAnswerFailsUpload ==
    /\ [][ Transferring => upRead' = upRead ]_vars
    /\ [](Len(upRead) <= 2)
    /\ []((upPc = "done" /\ UpReceived(CmdFileContentAnswer) > 0) => upErr # "nil")
    /\ [](ContentAnswerJudged => (upErr = "unexpected" /\ StartAccepted /\ AllBytesDelivered))

C39_Witness ==
    /\ ContentAnswerJudged /\ upErr = "unexpected"
    /\ upRead[2] = FileContentAnswer
    /\ AllBytesDelivered /\ ContentBytes # << >>
    /\ live = "ready"


(***************************************************************************)
(* One sendSdkCmdAndReceive from its first statement to its return, with   *)
(* a peer that sends any frames it likes, at most MaxAsmFrames of them.    *)
(***************************************************************************)
\* the request documents: the empty one, and two that fit one packet
CycleSizes == { 0, 1, 3 }

InitCycle ==
    /\ FrameIdle
    /\ DevIdle
    /\ UpIdle
    /\ \E n \in CycleSizes : xmlData = Payload(n, "plain")
    /\ built = << >> /\ nWritten = 0 /\ wire = << >>
    /\ inFrames = << >> /\ nSent = 0 /\ rs = RsInit /\ covered = { }
    /\ noHb = RsInit /\ readLog = << >>
    /\ cyPc = "build"

\* sendSdkCmd: a sendRaw returns an error (d.conn is nil, the write fails or
\* its deadline passes); sendSdkCmdAndReceive returns it without reading
WriteFail ==
    /\ cyPc = "send"
    /\ nWritten < Len(built)
    /\ rs' = [rs EXCEPT !.out = Failed("sendFailed", 0)]
    /\ noHb' = [noHb EXCEPT !.out = Failed("sendFailed", 0)]
    /\ cyPc' = "done"
    /\ UNCHANGED << xmlData, built, nWritten, wire, inFrames, nSent, covered, readLog >>
    /\ UNCHANGED << frameVars, devVars, upVars >>

\* readPacket: the deadline set by SetReadDeadline passes with nothing to
\* read, whether or not the peer has taken the request
ReadTimeout ==
    /\ cyPc = "reading"
    /\ inFrames = << >>
    /\ rs' = [rs EXCEPT !.out = Failed("deadline", 0)]
    /\ noHb' = IF noHb.out.kind = "none"
               THEN [noHb EXCEPT !.out = Failed("deadline", 0)] ELSE noHb
    /\ cyPc' = "done"
    /\ UNCHANGED << xmlData, built, nWritten, wire, inFrames, nSent, covered, readLog >>
    /\ UNCHANGED << frameVars, devVars, upVars >>

NextCycle ==
    \/ BuildPackets \/ WritePacket \/ WriteFail \/ StartRead
    \/ PeerSend \/ ReadSdkStep \/ ReadTimeout

SpecCycle == InitCycle /\ [][NextCycle]_vars

\* the goroutine that runs the cycle keeps running, and each of its socket
\* calls returns: a write by its write deadline, a read with a frame or by
\* its read deadline.  Nothing is assumed of the peer.
CycleFairness ==
    /\ WF_vars(BuildPackets)
    /\ WF_vars(WritePacket \/ WriteFail)
    /\ WF_vars(StartRead)
    /\ \/ []<>(cyPc # "reading")
       \/ []<><< ReadSdkStep \/ ReadTimeout >>_vars

SpecCycleFair == SpecCycle /\ CycleFairness

\* ---------------------------------------------------------------------------
\* C40: a command/response cycle terminates: with a peer that sends finitely
\* many frames, sendSdkCmdAndReceive eventually ends, and it ends by returning
\* a response or an error (never by a crash): also when the request is empty
\* and no frame is written, and when the fragments received never add up to
\* the declared total.
CycleOver == cyPc = "done"

Returned == CycleOver /\ rs.out.kind \in {"response", "error"} /\ rs.out.err # "panic"

C40_CycleTerminates ==
    /\ <>CycleOver
    /\ [](CycleOver => Returned)

\* the cycles end
C40_CycleEnds == <>CycleOver

\* an empty request, nothing written, and the read ended by its deadline
C40_EmptyRequestTimesOut ==
    /\ CycleOver /\ xmlData = << >> /\ wire = << >>
    /\ rs.out.err = "deadline"

\* fragments that never add up: the buffer is allocated, the peer has sent
\* all it will, and the read ended by its deadline
C40_FragmentsShortTimesOut ==
    /\ CycleOver /\ ~rs.xmlBufNil /\ nSent = MaxAsmFrames
    /\ rs.out.err = "deadline"

=============================================================================
